---------------------------- MODULE Spec2Model ----------------------------
(***************************************************************************)
(* A model of the thermal-viewer backend: the Flask endpoints of app.py,   *)
(* the services they call (mosaic, image, pipe-measure) and the bearer     *)
(* token gate of middleware/auth.py, over a record store (DynamoDB tables  *)
(* Images, Pads, Measurements) and a blob store (S3).                      *)
(*                                                                         *)
(* Strings are sequences of characters (one-character TLA+ strings, and    *)
(* the marker "_PAD_" kept as one token); an S3 key is the sequence of its *)
(* "/"-separated components.  Every request is one action, which runs the  *)
(* whole handler and leaves its answer in resp.  The stores are drawn in   *)
(* Init and never written.  A store round trip may fail: each request      *)
(* draws a fault [call, kind], the number of the round trip that fails (0: *)
(* none) and how.                                                          *)
(***************************************************************************)
EXTENDS Integers, Sequences, FiniteSets, TLC

VARIABLES
    images,      \* Images table: the image records, in index order
    blobs,       \* blob store: the set of S3 keys that hold an object
    padsTable,   \* Pads table: the pad records, in scan / index order
    measTable,   \* Measurements table: the records, in index order
    configured,  \* whether COGNITO_USER_POOL_ID is set
    jwks_cache,  \* auth._jwks_cache: [null, keys, last_updated]
    issuerKeys,  \* the key ids the issuer's JWKS document lists now
    now,         \* time.time(), in seconds
    gate,        \* the calls of get_public_key in progress, statement by statement
    resp         \* what the last request did and answered

vars == <<images, blobs, padsTable, measTable, configured, jwks_cache, issuerKeys, now, gate,
          resp>>

stores == <<images, blobs, padsTable, measTable>>

authVars == <<configured, jwks_cache, issuerKeys, now, gate>>

\* no request in progress
Idle == [op |-> "idle"]

\* no call of get_public_key is followed statement by statement
NoGate == [threads |-> <<>>, refreshed_at |-> 0]

\* auth._jwks_cache as the module sets it: {'keys': None, 'last_updated': 0}
EmptyCache == [null |-> TRUE, keys |-> {}, last_updated |-> 0]

\* the gate left out of a specification: no pool id, nothing cached
NoAuth ==
    /\ configured = FALSE
    /\ jwks_cache = EmptyCache
    /\ issuerKeys = {}
    /\ now = 0
    /\ gate = NoGate

(***************************************************************************)
(* Bounds of the model.                                                    *)
(***************************************************************************)
MaxImages == 2

MaxDefects == 1

(***************************************************************************)
(* Strings and their order (Python compares str by code point,             *)
(* lexicographically; a proper prefix is smaller).                         *)
(***************************************************************************)
CodePoint(c) ==
    CASE c = "#" -> 35
      [] c = "1" -> 49
      [] c = "2" -> 50
      [] c = "_" -> 95
      [] c = "_PAD_" -> 95
      [] c = "a" -> 97
      [] c = "b" -> 98
      [] c = "m" -> 109
      [] c = "n" -> 110
      [] c = "x" -> 120
      [] c = "y" -> 121

RECURSIVE StrLess(_, _)
StrLess(s, t) ==
    IF t = <<>> THEN FALSE
    ELSE IF s = <<>> THEN TRUE
    ELSE IF CodePoint(Head(s)) # CodePoint(Head(t))
         THEN CodePoint(Head(s)) < CodePoint(Head(t))
    ELSE StrLess(Tail(s), Tail(t))

StrLeq(s, t) == s = t \/ StrLess(s, t)

None == <<"None">>

(***************************************************************************)
(* The identifiers of the model.                                           *)
(***************************************************************************)
Variants == {"optical", "medical", "hotspot_alert"}

Files == {"odm_orthophoto.tif", "shots.geojson"}

\* pad_id = {site}_{sector}_PAD_{name}
PadId(site, sector, name) == site \o <<"_">> \o sector \o <<"_PAD_">> \o name

\* sector_period = {sector}#{period}
SectorPeriod(sector, period) == sector \o <<"#">> \o period

\* mosaics/{site}/{sector}/{period}/{pad_id}/{mosaic_type}/viewer
MosaicBase(site, sector, period, pad_id, mosaic_type) ==
    <<"mosaics", site, sector, period, pad_id, mosaic_type, "viewer">>

(***************************************************************************)
(* Store round trips and their faults.                                     *)
(***************************************************************************)
FaultKinds == {"client_error", "other"}

NoFault == [call |-> 0, kind |-> "other"]

Faults(maxCall) == {NoFault} \cup [call : 1..maxCall, kind : FaultKinds]

\* s3.head_object: "ok", the ClientError "404", or the fault of this round trip
HeadObject(key, n, fault) ==
    IF fault.call = n THEN fault.kind
    ELSE IF key \in blobs THEN "ok" ELSE "404"

\* _s3_object_exists answering True when the probe failed with no answer
s3_object_exists_failopen(key, n, fault) ==
    LET r == HeadObject(key, n, fault)
    IN  CASE r = "ok" -> [ret |-> TRUE, raised |-> FALSE]
          [] r = "404" -> [ret |-> FALSE, raised |-> FALSE]
          [] r = "client_error" -> [ret |-> FALSE, raised |-> TRUE]
          [] OTHER -> [ret |-> TRUE, raised |-> FALSE]

\* MosaicService._s3_object_exists: True, False on a 404 or on a non-ClientError
\* exception, and any other ClientError raised again
s3_object_exists(key, n, fault) ==
    LET r == HeadObject(key, n, fault)
    IN  CASE r = "ok" -> [ret |-> TRUE, raised |-> FALSE]
          [] r = "404" -> [ret |-> FALSE, raised |-> FALSE]
          [] r = "client_error" -> [ret |-> FALSE, raised |-> TRUE]
          [] OTHER -> [ret |-> FALSE, raised |-> FALSE]

\* the first k elements of s (all of s when it is shorter)
Take(s, k) == [i \in 1..(IF k < Len(s) THEN k ELSE Len(s)) |-> s[i]]

\* the elements of s after the first k
Drop(s, k) == [i \in 1..(IF k < Len(s) THEN Len(s) - k ELSE 0) |-> s[i + k]]

RECURSIVE KSubsets(_, _)
\* the subsets of S of at most k elements
KSubsets(S, k) ==
    IF k = 0 THEN {{}}
    ELSE LET prev == KSubsets(S, k - 1)
         IN  prev \cup {T \cup {x} : T \in prev, x \in S}

\* the indices of a table, in index order
Indices(table) == [i \in 1..Len(table) |-> i]

\* the query without its FilterExpression
QueryImagesNoFilter(site, sp, pad_id, n, fault) ==
    IF fault.call = n THEN [raised |-> TRUE, Items |-> <<>>]
    ELSE LET InPartIdx(i) == images[i].site_id = site
                             /\ SectorPeriod(images[i].sector_id, images[i].period) = sp
         IN  [raised |-> FALSE, Items |-> Take(SelectSeq(Indices(images), InPartIdx), 1)]

\* images_table.query on SiteSectorPeriodIndex with FilterExpression pad_id = :pad
\* and Limit=1: the store reads at most Limit items of the key's partition and
\* filters what it read.  Items holds the indices (in images) of the matches.
QueryImagesLimit1(site, sp, pad_id, n, fault) ==
    IF fault.call = n THEN [raised |-> TRUE, Items |-> <<>>]
    ELSE LET InPart(img) == img.site_id = site
                            /\ SectorPeriod(img.sector_id, img.period) = sp
             InPartIdx(i) == InPart(images[i])
             part == SelectSeq(Indices(images), InPartIdx)
             read == Take(part, 1)
             Match(i) == images[i].pad_id = pad_id
         IN  [raised |-> FALSE, Items |-> SelectSeq(read, Match)]

(***************************************************************************)
(* MosaicService.check_pad_completeness                                    *)
(***************************************************************************)
\* the variants visited in another order
required_types_reordered == <<"medical", "optical", "hotspot_alert">>

required_types == <<"optical", "medical", "hotspot_alert">>

Outcome(result, raised, probes, why) ==
    [result |-> result, raised |-> raised, probes |-> probes, why |-> why]

RECURSIVE CheckTypes(_, _, _, _, _, _)
\* the loop over required_types; n numbers the next round trip, probes is the
\* log of the existence probes so far, <<key, answer>> each
CheckTypes(types, included_in, mosaic_s3_keys, n, probes, fault) ==
    IF types = <<>> THEN Outcome(TRUE, FALSE, probes, "complete")
    ELSE
    LET mosaic_type == Head(types) IN
    IF mosaic_type \notin included_in
    THEN Outcome(FALSE, FALSE, probes, "not_included")
    ELSE IF mosaic_type \notin DOMAIN mosaic_s3_keys
    THEN Outcome(FALSE, FALSE, probes, "no_key")
    ELSE
    LET base_key == mosaic_s3_keys[mosaic_type]
        orthophoto_key == Append(base_key, "odm_orthophoto.tif")
        shots_key == Append(base_key, "shots.geojson")
        e1 == s3_object_exists(orthophoto_key, n, fault)
        p1 == Append(probes, <<orthophoto_key, HeadObject(orthophoto_key, n, fault)>>)
    IN  IF e1.raised THEN Outcome(FALSE, TRUE, p1, "raised")
        ELSE IF ~e1.ret THEN Outcome(FALSE, FALSE, p1, "missing_file")
        ELSE
        LET e2 == s3_object_exists(shots_key, n + 1, fault)
            p2 == Append(p1, <<shots_key, HeadObject(shots_key, n + 1, fault)>>)
        IN  IF e2.raised THEN Outcome(FALSE, TRUE, p2, "raised")
            ELSE IF ~e2.ret THEN Outcome(FALSE, FALSE, p2, "missing_file")
            ELSE CheckTypes(Tail(types), included_in, mosaic_s3_keys, n + 2, p2, fault)

\* check_pad_completeness: its answer, the record it inspected (0: none), its
\* probes, and whether an exception left it (raised) or was caught inside
check_pad_completeness(site, sector, period, pad_id, fault) ==
    LET response == QueryImagesLimit1(site, SectorPeriod(sector, period), pad_id, 1, fault)
    IN  IF response.raised
        THEN [result |-> FALSE, raised |-> FALSE, caught |-> TRUE, inspected |-> 0,
              probes |-> <<>>, why |-> "raised"]
        ELSE IF response.Items = <<>>
        THEN [result |-> FALSE, raised |-> FALSE, caught |-> FALSE, inspected |-> 0,
              probes |-> <<>>, why |-> "no_images"]
        ELSE
        LET first_image == images[response.Items[1]]
            c == CheckTypes(required_types, first_image.included_in,
                            first_image.mosaic_s3_keys, 2, <<>>, fault)
        IN  [result |-> c.result, raised |-> FALSE, caught |-> c.raised,
             inspected |-> response.Items[1], probes |-> c.probes, why |-> c.why]

(***************************************************************************)
(* Values of the record store and of a JSON body: tagged, so that          *)
(* decimal_to_float can tell a Decimal from a float, a dict and a list.    *)
(***************************************************************************)
Dec(n) == [t |-> "Decimal", v |-> n]

Float(n) == [t |-> "float", v |-> n]

Str(s) == [t |-> "str", v |-> s]

List(items) == [t |-> "list", items |-> items]

Dict(items) == [t |-> "dict", items |-> items]

RECURSIVE decimal_to_float_no_lists(_)
\* decimal_to_float without the list branch
decimal_to_float_no_lists(obj) ==
    IF obj.t = "Decimal" THEN Float(obj.v)
    ELSE IF obj.t = "dict"
    THEN Dict([k \in DOMAIN obj.items |-> decimal_to_float_no_lists(obj.items[k])])
    ELSE obj

RECURSIVE decimal_to_float(_)
\* app.decimal_to_float; a dict's items are a function from its keys
decimal_to_float(obj) ==
    IF obj.t = "Decimal" THEN Float(obj.v)
    ELSE IF obj.t = "dict"
    THEN Dict([k \in DOMAIN obj.items |-> decimal_to_float(obj.items[k])])
    ELSE IF obj.t = "list"
    THEN List([i \in 1..Len(obj.items) |-> decimal_to_float(obj.items[i])])
    ELSE obj

(***************************************************************************)
(* decimal_to_float on the values a record can hold: leaves, lists and     *)
(* dicts nested in one another, of at most MaxNodes nodes.                 *)
(***************************************************************************)
MaxNodes == 4

Leaves == {Dec(1), Float(2), Str("s")}

KeyNames == <<"a", "b", "c", "d", "e", "f">>

\* the dict whose i-th key holds q[i]
DictOf(q) ==
    Dict([k \in {KeyNames[i] : i \in 1..Len(q)} |->
            q[CHOOSE i \in 1..Len(q) : KeyNames[i] = k]])

RECURSIVE ValuesOfSize(_), ListsOfSize(_)
\* the values of exactly n nodes
ValuesOfSize(n) ==
    IF n = 0 THEN {}
    ELSE (IF n = 1 THEN Leaves ELSE {})
         \cup {List(q) : q \in ListsOfSize(n - 1)}
         \cup {DictOf(q) : q \in ListsOfSize(n - 1)}

\* the sequences of values of m nodes together
ListsOfSize(m) ==
    IF m = 0 THEN {<<>>}
    ELSE UNION {{<<v>> \o rest : v \in ValuesOfSize(k), rest \in ListsOfSize(m - k)} :
                   k \in 1..m}

InitConvert ==
    /\ \E n \in 1..MaxNodes : \E obj \in ValuesOfSize(n) : resp = [op |-> "value", obj |-> obj]
    /\ images = <<>>
    /\ blobs = {}
    /\ padsTable = <<>>
    /\ measTable = <<>>
    /\ NoAuth

\* jsonify(decimal_to_float(obj))
Convert ==
    /\ resp.op = "value"
    /\ resp' = [op |-> "converted", obj |-> resp.obj, out |-> decimal_to_float(resp.obj)]
    /\ UNCHANGED <<stores, authVars>>

NextConvert == Convert

SpecConvert == InitConvert /\ [][NextConvert]_vars

(***************************************************************************)
(* GET /api/pads                                                           *)
(***************************************************************************)
PadsFaultCalls == 2

\* A query or scan answers one page: the store reads the first `page` items
\* that satisfy the key condition (as many as fit its size limit) and hands out
\* a LastEvaluatedKey when more remain.
PageChoices(table) == 1..(IF Len(table) = 0 THEN 1 ELSE Len(table))

\* the fault of each is_complete call of one request (a function from the
\* position of the pad in the page); a fault falls on one of the first
\* PadsFaultCalls round trips of a call
FaultPlans(k) == [1..k -> Faults(PadsFaultCalls)]

\* str.split('_PAD_')[-1]: what follows the last "_PAD_" (all of it when none)
RECURSIVE AfterLastPad(_)
AfterLastPad(s) ==
    IF \E i \in 1..Len(s) : s[i] = "_PAD_"
    THEN AfterLastPad(Drop(s, CHOOSE i \in 1..Len(s) :
                                 s[i] = "_PAD_" /\ \A j \in 1..(i - 1) : s[j] # "_PAD_"))
    ELSE s

\* pads_table.query on SiteSectorDateIndex, site_sector = {site}_{sector}: its
\* first page
QueryPadsPage(site, sector, page) ==
    LET InPart(item) == item.site \o <<"_">> \o item.sector = site \o <<"_">> \o sector
        part == SelectSeq(padsTable, InPart)
    IN  [Items |-> Take(part, page), more |-> page < Len(part)]

PadEntry(item) ==
    [pad_id |-> item.pad_id,
     pad_name |-> IF item.pad_name # None THEN item.pad_name ELSE AfterLastPad(item.pad_id),
     geo_location_area |-> decimal_to_float(item.geo_location_area)]

RECURSIVE SortByPadName(_)
\* list.sort(key=pad_name): ascending and stable
SortByPadName(pads) ==
    IF pads = <<>> THEN <<>>
    ELSE LET rest == SortByPadName(Tail(pads))
             before == SelectSeq(rest, LAMBDA q : StrLess(q.pad_name, Head(pads).pad_name))
             after == SelectSeq(rest, LAMBDA q : ~StrLess(q.pad_name, Head(pads).pad_name))
         IN  before \o <<Head(pads)>> \o after

get_pads(site, sector, period, page, qfault, plan) ==
    IF site = None \/ sector = None
    THEN [status |-> 400, body |-> <<>>, checked |-> <<>>, queried |-> <<>>]
    ELSE IF qfault.call = 1
    THEN [status |-> 500, body |-> <<>>, checked |-> <<>>, queried |-> <<>>]
    ELSE
    LET response == QueryPadsPage(site, sector, page)
        pads == [i \in 1..Len(response.Items) |-> PadEntry(response.Items[i])]
        answer(j) == check_pad_completeness(site, sector, period, pads[j].pad_id,
                                            plan[j])
        complete_pads == SelectSeq(Indices(pads), LAMBDA j : answer(j).result)
        kept == IF period # None THEN [i \in 1..Len(complete_pads) |-> pads[complete_pads[i]]]
                ELSE pads
    IN  [status |-> 200, body |-> SortByPadName(kept),
         checked |-> IF period # None
                     THEN [j \in 1..Len(pads) |->
                             [pad_id |-> pads[j].pad_id, result |-> answer(j).result,
                              probes |-> Len(answer(j).probes)]]
                     ELSE <<>>,
         queried |-> [i \in 1..Len(pads) |-> pads[i].pad_id]]

(***************************************************************************)
(* The stores of the completeness checker: one site, sector and period;    *)
(* the image records of its pads in any index order; every record lists    *)
(* every variant under its conventional key and every artifact exists, but *)
(* for at most MaxDefects defects.                                         *)
(***************************************************************************)
CSite == <<"a">>

CSector == <<"x">>

CPeriod == <<"1">>

CPadNames == {<<"m">>, <<"n">>}

CPads == {PadId(CSite, CSector, name) : name \in CPadNames}


\* where a store may fall short of complete
Defects(n) ==
    {<<"inc", i, v>> : i \in 1..n, v \in Variants}
    \cup {<<"key", i, v>> : i \in 1..n, v \in Variants}
    \cup {<<"noprep", i>> : i \in 1..n}
    \cup {<<"blob", pad, v, f>> : pad \in CPads, v \in Variants, f \in Files}

ImageRecord(pad_id, i, D) ==
    LET listed == IF <<"noprep", i>> \in D THEN {}
                  ELSE {v \in Variants : <<"inc", i, v>> \notin D}
        keyed == IF <<"noprep", i>> \in D THEN {}
                 ELSE {v \in Variants : <<"key", i, v>> \notin D}
    IN  [site_id |-> CSite, sector_id |-> CSector, period |-> CPeriod,
         pad_id |-> pad_id, included_in |-> listed,
         mosaic_s3_keys |-> [v \in keyed |-> MosaicBase(CSite, CSector, CPeriod, pad_id, v)]]

AllArtifacts ==
    {Append(MosaicBase(CSite, CSector, CPeriod, pad, v), f) :
        pad \in CPads, v \in Variants, f \in Files}

BlobStore(D) ==
    AllArtifacts \ {Append(MosaicBase(CSite, CSector, CPeriod, pad, v), f) :
                        <<pad, v, f>> \in {<<pad2, v2, f2>> \in CPads \X Variants \X Files :
                                            <<"blob", pad2, v2, f2>> \in D}}

\* a Pads record; pad_name is None when the attribute is absent
PadRecord(site, sector, name, pad_name, area) ==
    [pad_id |-> PadId(site, sector, name), site |-> site, sector |-> sector,
     pad_name |-> pad_name, geo_location_area |-> area]

RECURSIVE Orderings(_)
\* the sequences that list every element of S once
Orderings(S) ==
    IF S = {} THEN {<<>>}
    ELSE UNION {{<<x>> \o p : p \in Orderings(S \ {x})} : x \in S}

InitComplete ==
    /\ \E n \in 0..MaxImages : \E padOf \in [1..n -> CPads] :
         \E D \in KSubsets(Defects(n), MaxDefects) :
           /\ images = [i \in 1..n |-> ImageRecord(padOf[i], i, D)]
           /\ blobs = BlobStore(D)
    /\ padsTable = <<>>
    /\ measTable = <<>>
    /\ NoAuth
    /\ resp = Idle

\* The stores of GET /api/pads: a Pads record for some of the pads, in any index
\* order, and one image record for some of the pads, in any index order, with
\* at most MaxDefects defects.
InitPads ==
    /\ \E names \in SUBSET CPadNames : \E order \in Orderings(names) :
         \E D \in KSubsets(Defects(Len(order)), MaxDefects) :
           /\ images = [i \in 1..Len(order) |->
                          ImageRecord(PadId(CSite, CSector, order[i]), i, D)]
           /\ blobs = BlobStore(D)
    /\ \E names \in SUBSET CPadNames : \E order \in Orderings(names) :
         padsTable = [i \in 1..Len(order) |->
                        PadRecord(CSite, CSector, order[i], None, List(<<Dec(1)>>))]
    /\ measTable = <<>>
    /\ NoAuth
    /\ resp = Idle

\* a direct call of is_complete
IsComplete ==
    /\ resp = Idle
    /\ \E pad_id \in CPads : \E fault \in Faults(7) :
        resp' = [op |-> "is_complete", site |-> CSite, sector |-> CSector,
                 period |-> CPeriod, pad_id |-> pad_id, fault |-> fault]
                @@ check_pad_completeness(CSite, CSector, CPeriod, pad_id, fault)
    /\ UNCHANGED <<stores, authVars>>

\* the requests of GET /api/pads: a parameter missing; the pads query failing;
\* no period; a period, with the faults of the completeness checks
PadsRequest(site, sector, period, page, qfault, plan) ==
    [site |-> site, sector |-> sector, period |-> period, page |-> page,
     qfault |-> qfault, plan |-> plan]

\* the requests that name no period
PadsListRequests ==
    {PadsRequest(None, CSector, None, 1, NoFault, <<>>),
     PadsRequest(CSite, None, None, 1, NoFault, <<>>)}
    \cup {PadsRequest(CSite, CSector, None, 1, f, <<>>) : f \in Faults(1) \ {NoFault}}
    \cup {PadsRequest(CSite, CSector, None, page, NoFault, <<>>) :
            page \in PageChoices(padsTable)}

PadsRequests ==
    PadsListRequests
    \cup UNION {{PadsRequest(CSite, CSector, CPeriod, page, NoFault, plan) :
                    plan \in FaultPlans(Len(QueryPadsPage(CSite, CSector, page).Items))} :
                page \in PageChoices(padsTable)}

\* GET /api/pads
GetPads ==
    /\ resp = Idle
    /\ \E r \in PadsRequests :
        resp' = [op |-> "get_pads", site |-> r.site, sector |-> r.sector,
                 period |-> r.period, page |-> r.page, qfault |-> r.qfault, plan |-> r.plan]
                @@ get_pads(r.site, r.sector, r.period, r.page, r.qfault, r.plan)
    /\ UNCHANGED <<stores, authVars>>

\* the answer leaves the server
Deliver ==
    /\ resp # Idle
    /\ resp' = Idle
    /\ UNCHANGED <<stores, authVars>>

NextComplete == IsComplete \/ Deliver

SpecComplete == InitComplete /\ [][NextComplete]_vars

NextPads == GetPads \/ Deliver

SpecPads == InitPads /\ [][NextPads]_vars

(***************************************************************************)
(* services/image_service.py and the image endpoints.  An image record     *)
(* keeps its attributes in functions whose domain is the attributes it     *)
(* has; a signed URL is the key it signs.                                  *)
(***************************************************************************)
Palettes == {"medical", "hotspot_alert"}

Signed(key) == <<"signed", key>>

\* float(d.get(k, 0))
FloatOf(d, k) == IF k \in DOMAIN d THEN Float(d[k].v) ELSE Float(0)

\* d.get(k, {})
SubDict(d, k) == IF k \in DOMAIN d THEN d[k] ELSE <<>>

\* the positions of token c in s
Positions(s, c) == {i \in 1..Len(s) : s[i] = c}

Last(S) == CHOOSE i \in S : \A j \in S : j <= i

First(S) == CHOOSE i \in S : \A j \in S : i <= j

RECURSIVE Split(_, _)
\* s.split(sep)
Split(s, sep) ==
    IF Positions(s, sep) = {} THEN <<s>>
    ELSE LET i == First(Positions(s, sep))
         IN  <<Take(s, i - 1)>> \o Split(Drop(s, i), sep)

RECURSIVE Join(_, _)
\* sep.join(parts)
Join(parts, sep) ==
    IF parts = <<>> THEN <<>>
    ELSE IF Len(parts) = 1 THEN parts[1]
    ELSE parts[1] \o <<sep>> \o Join(Tail(parts), sep)

\* thermal_filename.rsplit('.', 1)[0] if '.' in thermal_filename else thermal_filename
StripExtension(name) ==
    IF Positions(name, ".") = {} THEN name ELSE Take(name, Last(Positions(name, ".")) - 1)

\* colored/{palette}/{site}/{sector}/{period}/{image_name}_colorbar.png
ColorbarKey(palette, site, sector, period, image_name) ==
    <<"colored", palette, site, sector, period, image_name \o <<"_colorbar.png">>>>

\* images_table.get_item: the items of that key (at most one)
GetItem(image_id) == SelectSeq(images, LAMBDA item : item.image_id = image_id)

\* ImageService._get_colorbar_url; n numbers the round trip of its probe
get_colorbar_url(item, palette, n, fault) ==
    IF item.site_id = None \/ item.sector_id = None \/ item.period = None THEN None
    ELSE LET parts == Split(item.image_id, "_")
             derived == Join(Drop(parts, Len(parts) - 3), "_")
             thermal_filename ==
                 IF item.thermal_filename # None THEN item.thermal_filename ELSE derived
         IN  IF item.thermal_filename = None /\ Len(parts) < 4 THEN None
             ELSE LET colorbar_key ==
                          ColorbarKey(palette, item.site_id, item.sector_id, item.period,
                                      StripExtension(thermal_filename))
                  IN  IF HeadObject(colorbar_key, n, fault) = "ok"
                      THEN Signed(colorbar_key) ELSE None

\* ImageService.get_optical_image_url
get_optical_image_url(image_id, fault) ==
    IF fault.call = 1 THEN [raised |-> TRUE, e |-> <<"store error">>, url |-> None]
    ELSE LET got == GetItem(image_id)
         IN  IF got = <<>>
             THEN [raised |-> TRUE, e |-> <<"Image not found">>, url |-> None]
             ELSE IF got[1].optical_s3_key = None
             THEN [raised |-> TRUE, e |-> <<"No optical S3 key for image">>, url |-> None]
             ELSE [raised |-> FALSE, e |-> <<>>, url |-> Signed(got[1].optical_s3_key)]

\* ImageService.get_thermal_image_url
get_thermal_image_url(image_id, palette, fault) ==
    IF fault.call = 1
    THEN [raised |-> TRUE, e |-> <<"store error">>, url |-> None, colorbar_url |-> None]
    ELSE LET got == GetItem(image_id)
         IN  IF got = <<>>
             THEN [raised |-> TRUE, e |-> <<"Image not found">>,
                   url |-> None, colorbar_url |-> None]
             ELSE IF palette \notin DOMAIN got[1].colored_images
             THEN [raised |-> TRUE, e |-> <<"No thermal image of the palette">>,
                   url |-> None, colorbar_url |-> None]
             ELSE [raised |-> FALSE, e |-> <<>>,
                   url |-> Signed(got[1].colored_images[palette]),
                   colorbar_url |-> get_colorbar_url(got[1], palette, 2, fault)]

\* any calibration status counting as calibrated
IsCalibratedAnyStatus(calibration) == "status" \in DOMAIN calibration

\* calibration.get('status') == 'calibrated'
IsCalibrated(calibration) ==
    "status" \in DOMAIN calibration /\ calibration.status = "calibrated"

\* ImageService.get_thermal_stats
get_thermal_stats(image_id, fault) ==
    IF fault.call = 1 THEN [raised |-> TRUE, e |-> <<"store error">>, stats |-> Dict(<<>>)]
    ELSE LET got == GetItem(image_id)
         IN  IF got = <<>>
             THEN [raised |-> TRUE, e |-> <<"Image not found">>, stats |-> Dict(<<>>)]
             ELSE
             LET item == got[1]
                 thermal_metadata == SubDict(item.attrs, "thermal_metadata")
                 calibration == SubDict(item.attrs, "calibration")
                 is_calibrated == IsCalibrated(calibration)
                 temp_delta == SubDict(calibration, "temperature_delta")
                 params == SubDict(calibration, "params")
                 stats ==
                     IF is_calibrated
                     THEN [min_temp |-> FloatOf(thermal_metadata, "temperature_min"),
                           max_temp |-> FloatOf(temp_delta, "max_calibrated"),
                           avg_temp |-> FloatOf(temp_delta, "avg_calibrated"),
                           is_calibrated |-> Str("True"),
                           palette |-> Str("medical"),
                           calibration_params |-> Dict(
                               [emissivity |-> FloatOf(params, "emissivity"),
                                distance |-> FloatOf(params, "distance"),
                                reflection |-> FloatOf(params, "reflection"),
                                ambient_temp |-> FloatOf(params, "ambient_temp"),
                                humidity |-> FloatOf(params, "humidity")])]
                     ELSE [min_temp |-> FloatOf(thermal_metadata, "temperature_min"),
                           max_temp |-> FloatOf(thermal_metadata, "temperature_max"),
                           avg_temp |-> FloatOf(thermal_metadata, "temperature_avg"),
                           is_calibrated |-> Str("False"),
                           palette |-> Str("medical"),
                           original_params |-> Dict(
                               [emissivity |-> FloatOf(thermal_metadata, "emissivity"),
                                distance |-> FloatOf(thermal_metadata, "object_distance"),
                                reflection |-> FloatOf(thermal_metadata, "reflected_temperature"),
                                ambient_temp |-> FloatOf(thermal_metadata, "ambient_temperature"),
                                humidity |-> FloatOf(thermal_metadata, "relative_humidity")])]
                 processing_status == SubDict(item.attrs, "processing_status")
                 colormapping == SubDict(processing_status, "colormapping")
                 medical_palette == SubDict(colormapping, "medical")
                 temperature_stats == SubDict(medical_palette, "temperature_stats")
                 range ==
                     [dataset_temperature_range |-> Dict(
                         [min_temp_c |-> FloatOf(temperature_stats, "min_temp_c"),
                          max_temp_c |-> FloatOf(temperature_stats, "max_temp_c"),
                          mean_temp_c |-> FloatOf(temperature_stats, "mean_temp_c"),
                          normalization |->
                              IF "normalization" \in DOMAIN temperature_stats
                              THEN temperature_stats.normalization ELSE Str("unknown"),
                          sample_size |-> FloatOf(temperature_stats, "sample_size")])]
             IN  [raised |-> FALSE, e |-> <<>>,
                  stats |-> Dict(IF temperature_stats # <<>> THEN stats @@ range ELSE stats)]

\* app.get_optical_image
get_optical_image(image_id, fault) ==
    LET r == get_optical_image_url(image_id, fault)
    IN  IF r.raised THEN [status |-> 500, body |-> Dict([error |-> Str(r.e)])]
        ELSE [status |-> 200, body |-> Dict([url |-> Str(r.url)])]

\* app.get_thermal_image
get_thermal_image(image_id, palette, fault) ==
    LET r == get_thermal_image_url(image_id, palette, fault)
    IN  IF r.raised THEN [status |-> 500, body |-> Dict([error |-> Str(r.e)])]
        ELSE [status |-> 200,
              body |-> Dict([url |-> Dict([url |-> Str(r.url),
                                           colorbar_url |-> Str(r.colorbar_url)])])]

\* app.get_thermal_stats
thermal_stats_view(image_id, fault) ==
    LET r == get_thermal_stats(image_id, fault)
    IN  IF r.raised THEN [status |-> 500, body |-> Dict([error |-> Str(r.e)])]
        ELSE [status |-> 200, body |-> decimal_to_float(r.stats)]

LongId == <<"a", "_", "x", "_", "1", "_", "D", "_", "5", "_", "T">>

ShortId == <<"D", "_", "5">>

UnknownId == <<"q">>

ThermalMetadata ==
    [temperature_min |-> Dec(101), temperature_max |-> Dec(303), temperature_avg |-> Dec(202),
     emissivity |-> Dec(95), object_distance |-> Dec(5), reflected_temperature |-> Dec(20),
     ambient_temperature |-> Dec(25), relative_humidity |-> Dec(50)]

Calibration(status) ==
    [status |-> status,
     temperature_delta |-> [min_calibrated |-> Dec(120), max_calibrated |-> Dec(452),
                            avg_calibrated |-> Dec(251)],
     params |-> [emissivity |-> Dec(90), distance |-> Dec(6), reflection |-> Dec(21),
                 ambient_temp |-> Dec(26), humidity |-> Dec(51)]]

ProcessingStatus ==
    [colormapping |-> [medical |-> [temperature_stats |->
        [min_temp_c |-> Dec(80), max_temp_c |-> Dec(600), mean_temp_c |-> Dec(240),
         normalization |-> Str("dataset"), sample_size |-> Dec(9)]]]]

\* the attribute maps an image record may carry
ImageAttrs ==
    {meta @@ cal @@ proc :
        meta \in {<<>>, [thermal_metadata |-> ThermalMetadata]},
        cal \in {<<>>, [calibration |-> Calibration("calibrated")],
                 [calibration |-> Calibration("pending")]},
        proc \in {<<>>, [processing_status |-> ProcessingStatus]}}

ColoredKey(image_id, palette) == <<"colored", palette, image_id>>

\* the image records of an id
ImageItems(image_id) ==
    {[image_id |-> image_id, site_id |-> CSite, sector_id |-> sector, period |-> CPeriod,
      thermal_filename |-> filename,
      optical_s3_key |-> optical,
      colored_images |-> [p \in palettes |-> ColoredKey(image_id, p)],
      attrs |-> attrs] :
        sector \in {CSector, None},
        filename \in {None, <<"D", "_", "5", "_", "T", ".", "J">>},
        optical \in {None, <<"optical", image_id>>},
        palettes \in {{}, {"medical"}, Palettes},
        attrs \in ImageAttrs}

Colorbars == {ColorbarKey(p, CSite, CSector, CPeriod, <<"D", "_", "5", "_", "T">>) : p \in Palettes}

\* one record, or none, behind a record of another id
InitImage ==
    /\ images \in {<<>>} \cup {<<item>> : item \in ImageItems(LongId) \cup ImageItems(ShortId)}
                  \cup {<<CHOOSE other \in ImageItems(ShortId) : TRUE, item>> :
                            item \in ImageItems(LongId)}
    /\ blobs \in SUBSET Colorbars
    /\ padsTable = <<>>
    /\ measTable = <<>>
    /\ NoAuth
    /\ resp = Idle

ImageIds == {LongId, ShortId, UnknownId}

\* GET /api/optical/<image_id>
GetOpticalImage ==
    /\ resp = Idle
    /\ \E image_id \in ImageIds : \E fault \in Faults(1) :
        resp' = [op |-> "get_optical_image", image_id |-> image_id, fault |-> fault]
                @@ get_optical_image(image_id, fault)
    /\ UNCHANGED <<stores, authVars>>

\* GET /api/thermal/<image_id>?palette=
GetThermalImage ==
    /\ resp = Idle
    /\ \E image_id \in ImageIds : \E palette \in Palettes : \E fault \in Faults(2) :
        resp' = [op |-> "get_thermal_image", image_id |-> image_id, palette |-> palette,
                 fault |-> fault]
                @@ get_thermal_image(image_id, palette, fault)
    /\ UNCHANGED <<stores, authVars>>

\* GET /api/thermal/<image_id>/stats
GetThermalStats ==
    /\ resp = Idle
    /\ \E image_id \in ImageIds : \E fault \in Faults(1) :
        resp' = [op |-> "get_thermal_stats", image_id |-> image_id, fault |-> fault]
                @@ thermal_stats_view(image_id, fault)
    /\ UNCHANGED <<stores, authVars>>

NextImage == GetOpticalImage \/ GetThermalImage \/ GetThermalStats \/ Deliver

SpecImage == InitImage /\ [][NextImage]_vars

(***************************************************************************)
(* Pages of a query or scan.  A request reads the rows after `start`, at   *)
(* most `page` of them (what fits the store's size limit), answers those   *)
(* that pass the filter, and hands out LastEvaluatedKey, the position of   *)
(* the last row read, when rows remain; with `quirk` it hands one out also *)
(* when the page ends with the last row, and the next page is empty.  A    *)
(* row is [item, match], match telling whether the item passes the filter; *)
(* lek 0 stands for no LastEvaluatedKey.                                   *)
(***************************************************************************)
Rows(items, match) == [i \in 1..Len(items) |-> [item |-> items[i], match |-> match[i]]]

PageOf(rows, start, page, quirk) ==
    LET end == IF start + page < Len(rows) THEN start + page ELSE Len(rows)
        read == [i \in 1..(end - start) |-> rows[start + i]]
        kept == SelectSeq(read, LAMBDA r : r.match)
    IN  [Items |-> [i \in 1..Len(kept) |-> kept[i].item],
         lek |-> IF end < Len(rows) \/ (quirk /\ start < Len(rows)) THEN end ELSE 0]

\* the loop reading the first page alone
PaginateOnce(rows, start, page, quirk, n, fault, items, calls) ==
    IF fault = n THEN [raised |-> TRUE, items |-> items, calls |-> calls]
    ELSE LET response == PageOf(rows, start, page, quirk)
         IN  [raised |-> FALSE, items |-> items \o response.Items,
              calls |-> Append(calls, [start |-> start, lek |-> response.lek,
                                       Items |-> response.Items])]

\* response = query(); items = Items; while 'LastEvaluatedKey' in response:
\* response = query(ExclusiveStartKey=...); items.extend(Items).  n numbers the
\* round trip, calls logs each request's start key and its response.
RECURSIVE Paginate(_, _, _, _, _, _, _, _)
Paginate(rows, start, page, quirk, n, fault, items, calls) ==
    IF fault = n THEN [raised |-> TRUE, items |-> items, calls |-> calls]
    ELSE LET response == PageOf(rows, start, page, quirk)
             got == items \o response.Items
             log == Append(calls, [start |-> start, lek |-> response.lek,
                                   Items |-> response.Items])
         IN  IF response.lek # 0
             THEN Paginate(rows, response.lek, page, quirk, n + 1, fault, got, log)
             ELSE [raised |-> FALSE, items |-> got, calls |-> log]

\* whether p is a prefix of s (begins_with)
IsPrefix(p, s) == Len(p) <= Len(s) /\ \A i \in 1..Len(p) : s[i] = p[i]

(***************************************************************************)
(* services/pipemeasure_service.py and its two endpoints.                  *)
(***************************************************************************)
MaxMeas == 3

\* sector_period_pad = {sector}#{period}#{pad_id}
SectorPeriodPad(sector, period, pad_id) == sector \o <<"#">> \o period \o <<"#">> \o pad_id

MeasRecord(site, sector, period, pad_id) ==
    [site_id |-> site, sector |-> sector, period |-> period, pad_id |-> pad_id,
     sector_period_pad |-> SectorPeriodPad(sector, period, pad_id),
     aggregate_stats |-> Dict([total_regions |-> Dec(2), total_area_m2 |-> Dec(7)])]

\* a measurement record as a JSON value
MeasValue(m) ==
    Dict([site_id |-> Str(m.site_id), pad_id |-> Str(m.pad_id),
          sector_period_pad |-> Str(m.sector_period_pad),
          aggregate_stats |-> m.aggregate_stats])

\* get_measurement with no key condition on the sort key
get_measurement_any(site, sector, period, pad_id, fault) ==
    IF fault = 1 THEN [raised |-> TRUE, found |-> FALSE, item |-> 0]
    ELSE LET part == SelectSeq(Indices(measTable), LAMBDA i : measTable[i].site_id = site)
             items == Take(part, 1)
         IN  IF items = <<>> THEN [raised |-> FALSE, found |-> FALSE, item |-> 0]
             ELSE [raised |-> FALSE, found |-> TRUE, item |-> items[1]]

\* PipeMeasureService.get_measurement: the index of the record, None (found
\* FALSE), or the exception raised again
get_measurement(site, sector, period, pad_id, fault) ==
    IF fault = 1 THEN [raised |-> TRUE, found |-> FALSE, item |-> 0]
    ELSE LET sector_period_pad == SectorPeriodPad(sector, period, pad_id)
             part == SelectSeq(Indices(measTable),
                               LAMBDA i : /\ measTable[i].site_id = site
                                          /\ measTable[i].sector_period_pad = sector_period_pad)
             items == Take(part, 1)
         IN  IF items = <<>> THEN [raised |-> FALSE, found |-> FALSE, item |-> 0]
             ELSE [raised |-> FALSE, found |-> TRUE, item |-> items[1]]

\* app.get_pipe_measurement
get_pipe_measurement(site, sector, period, pad_id, fault) ==
    LET measurement == get_measurement(site, sector, period, pad_id, fault)
    IN  IF measurement.raised THEN [status |-> 500, item |-> 0, body |-> Str(<<"error">>)]
        ELSE IF ~measurement.found
        THEN [status |-> 404, item |-> 0, body |-> Str(<<"Measurement not found">>)]
        ELSE [status |-> 200, item |-> measurement.item,
              body |-> decimal_to_float(MeasValue(measTable[measurement.item]))]

\* PipeMeasureService.get_measurements_by_sector
get_measurements_by_sector(site, sector, period, page, quirk, fault) ==
    LET sector_period_prefix == sector \o <<"#">> \o period \o <<"#">>
        part == SelectSeq(measTable,
                          LAMBDA m : /\ m.site_id = site
                                     /\ IsPrefix(sector_period_prefix, m.sector_period_pad))
    IN  Paginate(Rows(part, [i \in 1..Len(part) |-> TRUE]), 0, page, quirk, 1, fault, <<>>, <<>>)

\* app.get_sector_measurements
get_sector_measurements(site, sector, period, page, quirk, fault) ==
    LET measurements == get_measurements_by_sector(site, sector, period, page, quirk, fault)
    IN  IF measurements.raised
        THEN [status |-> 500, count |-> 0, measurements |-> List(<<>>),
              calls |-> measurements.calls]
        ELSE [status |-> 200, count |-> Len(measurements.items),
              measurements |-> decimal_to_float(
                  List([i \in 1..Len(measurements.items) |->
                          MeasValue(measurements.items[i])])),
              calls |-> measurements.calls]

MSite == <<"a">>

MSector == <<"x">>

MPeriods == {<<"1">>, <<"1", "2">>}

MeasRecords ==
    {MeasRecord(MSite, MSector, period, pad) : period \in MPeriods, pad \in CPads}

RECURSIVE Arrangements(_, _)
\* the sequences of at most k elements of S
Arrangements(S, k) ==
    IF k = 0 THEN {<<>>}
    ELSE LET shorter == Arrangements(S, k - 1)
         IN  shorter \cup {Append(q, x) : q \in shorter, x \in S}

\* whether no element occurs twice in q
Distinct(q) == \A i, j \in 1..Len(q) : q[i] = q[j] => i = j

\* no stores of the other operations
InitMeasure ==
    /\ measTable \in {q \in Arrangements(MeasRecords, MaxMeas) : Distinct(q)}
    /\ images = <<>>
    /\ blobs = {}
    /\ padsTable = <<>>
    /\ NoAuth
    /\ resp = Idle

\* GET /api/pipemeasure/measurement/<site>/<sector>/<period>/<pad_id>
GetPipeMeasurement ==
    /\ resp = Idle
    /\ \E period \in MPeriods : \E pad_id \in CPads : \E fault \in 0..1 :
        resp' = [op |-> "get_pipe_measurement", site |-> MSite, sector |-> MSector,
                 period |-> period, pad_id |-> pad_id, fault |-> fault]
                @@ get_pipe_measurement(MSite, MSector, period, pad_id, fault)
    /\ UNCHANGED <<stores, authVars>>

\* GET /api/pipemeasure/measurements/<site>/<sector>/<period>
GetSectorMeasurements ==
    /\ resp = Idle
    /\ \E period \in MPeriods : \E page \in PageChoices(measTable) :
       \E quirk \in BOOLEAN : \E fault \in 0..(Len(measTable) + 1) :
        resp' = [op |-> "get_sector_measurements", site |-> MSite, sector |-> MSector,
                 period |-> period, page |-> page, quirk |-> quirk, fault |-> fault]
                @@ get_sector_measurements(MSite, MSector, period, page, quirk, fault)
    /\ UNCHANGED <<stores, authVars>>

NextMeasure == GetPipeMeasurement \/ GetSectorMeasurements \/ Deliver

SpecMeasure == InitMeasure /\ [][NextMeasure]_vars

(***************************************************************************)
(* MosaicService.get_coverage_stats and GET /api/coverage/stats.  Lengths  *)
(* are counted in hundredths (an altitude in cm, an area in 0.01 m2, an    *)
(* angle in 0.01 degree), so that round(x, 2) is a rounding to an integer. *)
(***************************************************************************)
MaxShots == 3

camera_fov == 6890

IntLeaf(n) == [t |-> "int", v |-> n]

\* gps_location.get('altitude') of a record that has none
Absent == [t |-> "absent", v |-> 0]

\* round(num / den) for den > 0, a tie going to the even neighbour
RoundHalfEven(num, den) ==
    LET a == IF num < 0 THEN -num ELSE num
        q == a \div den
        r == a % den
        up == IF 2 * r > den \/ (2 * r = den /\ q % 2 = 1) THEN q + 1 ELSE q
    IN  IF num < 0 THEN -up ELSE up

RECURSIVE SumSeq(_)
\* sum(list)
SumSeq(q) == IF q = <<>> THEN 0 ELSE Head(q) + SumSeq(Tail(q))

\* the altitudes the loop collects: `if altitude:` passes an altitude that is
\* present and not zero
collected_altitudes(imgs) ==
    LET kept == SelectSeq(imgs, LAMBDA img : img.altitude # Absent /\ img.altitude.v # 0)
    IN  [i \in 1..Len(kept) |-> kept[i].altitude.v]

\* the area computed for any average altitude
total_area_unguarded(altitudes, total_images) ==
    IF altitudes = <<>> THEN 0
    ELSE
    RoundHalfEven(6024 * SumSeq(altitudes) * SumSeq(altitudes) * total_images,
                  1000000 * Len(altitudes) * Len(altitudes))

\* round(total_area, 2) for avg_altitude = sum(altitudes) / len(altitudes):
\* ground_width = 2 * avg * tan(fov / 2), ground_height = ground_width * 512/640,
\* total_area = ground_width * ground_height * total_images * 0.4, which is
\* 0.6024 * avg^2 * total_images
total_area(altitudes, total_images) ==
    IF altitudes # <<>> /\ SumSeq(altitudes) > 0
    THEN RoundHalfEven(6024 * SumSeq(altitudes) * SumSeq(altitudes) * total_images,
                       1000000 * Len(altitudes) * Len(altitudes))
    ELSE 0

\* MosaicService.get_coverage_stats: one query request with the pad filter
coverage_stats(site, sector, period, pad_id, page, quirk, fault) ==
    IF fault = 1 THEN [raised |-> TRUE, stats |-> Dict(<<>>), queried |-> <<>>]
    ELSE
    LET part == SelectSeq(images, LAMBDA img :
                    /\ img.site_id = site
                    /\ SectorPeriod(img.sector_id, img.period) = SectorPeriod(sector, period))
        response == PageOf(Rows(part, [i \in 1..Len(part) |-> part[i].pad_id = pad_id]),
                           0, page, quirk)
        imgs == response.Items
        total_images == Len(imgs)
        altitudes == collected_altitudes(imgs)
    IN  [raised |-> FALSE, queried |-> imgs,
         stats |->
             IF imgs = <<>>
             THEN Dict([total_images |-> IntLeaf(0), coverage_area_m2 |-> IntLeaf(0),
                        avg_altitude_m |-> IntLeaf(0), camera_fov_deg |-> IntLeaf(0)])
             ELSE Dict([total_images |-> IntLeaf(total_images),
                        coverage_area_m2 |-> Float(total_area(altitudes, total_images)),
                        avg_altitude_m |->
                            Float(IF altitudes # <<>>
                                  THEN RoundHalfEven(SumSeq(altitudes), Len(altitudes))
                                  ELSE 0),
                        camera_fov_deg |-> Float(camera_fov)])]

\* app.get_coverage_stats
get_coverage_stats(site, sector, period, pad_id, page, quirk, fault) ==
    IF site = None \/ sector = None \/ period = None \/ pad_id = None
    THEN [status |-> 400, body |-> Dict([error |-> Str(<<"required">>)]), queried |-> <<>>]
    ELSE LET r == coverage_stats(site, sector, period, pad_id, page, quirk, fault)
         IN  IF r.raised
             THEN [status |-> 500, body |-> Dict([error |-> Str(<<"store error">>)]),
                   queried |-> <<>>]
             ELSE [status |-> 200, body |-> decimal_to_float(r.stats), queried |-> r.queried]

\* altitudes in cm: below zero, zero, a few centimetres, and more
Altitudes == {-40, 0, 5, 40}

\* the image records of a pad with a GPS altitude or none, and one of the
\* other pad
ShotRecords ==
    {[site_id |-> CSite, sector_id |-> CSector, period |-> CPeriod,
      pad_id |-> PadId(CSite, CSector, <<"m">>), altitude |-> a] :
        a \in {Absent} \cup {Dec(v) : v \in Altitudes}}
    \cup {[site_id |-> CSite, sector_id |-> CSector, period |-> CPeriod,
           pad_id |-> PadId(CSite, CSector, <<"n">>), altitude |-> Dec(40)]}

\* at most MaxShots image records, in any index order
InitCoverage ==
    /\ images \in Arrangements(ShotRecords, MaxShots)
    /\ blobs = {}
    /\ padsTable = <<>>
    /\ measTable = <<>>
    /\ NoAuth
    /\ resp = Idle

\* GET /api/coverage/stats
GetCoverageStats ==
    /\ resp = Idle
    /\ \/ \E pad_id \in CPads : \E page \in PageChoices(images) :
          \E quirk \in BOOLEAN : \E fault \in 0..1 :
            resp' = [op |-> "get_coverage_stats", pad_id |-> pad_id, page |-> page,
                     quirk |-> quirk, fault |-> fault]
                    @@ get_coverage_stats(CSite, CSector, CPeriod, pad_id, page, quirk, fault)
       \/ resp' = [op |-> "get_coverage_stats", pad_id |-> None, page |-> 1,
                   quirk |-> FALSE, fault |-> 0]
                  @@ get_coverage_stats(CSite, CSector, CPeriod, None, 1, FALSE, 0)
    /\ UNCHANGED <<stores, authVars>>

NextCoverage == GetCoverageStats \/ Deliver

SpecCoverage == InitCoverage /\ [][NextCoverage]_vars

(***************************************************************************)
(* The discovery endpoints of app.py: sites, sectors and periods (pads is  *)
(* GET /api/pads above).                                                   *)
(***************************************************************************)
MaxItems == 3

\* the elements of a sequence
Range(q) == {q[i] : i \in 1..Len(q)}

\* list(set(...)) keeping every occurrence
list_of_all(q) == q

\* list(set(...)): each value once
list_of_set(q) == SelectSeq([i \in 1..Len(q) |-> IF \E j \in 1..(i - 1) : q[j] = q[i]
                                                 THEN None ELSE q[i]],
                            LAMBDA x : x # None)

RECURSIVE sorted(_)
\* sorted(list): ascending
sorted(q) ==
    IF q = <<>> THEN <<>>
    ELSE LET rest == sorted(Tail(q))
         IN  SelectSeq(rest, LAMBDA x : StrLess(x, Head(q))) \o <<Head(q)>>
             \o SelectSeq(rest, LAMBDA x : ~StrLess(x, Head(q)))

RECURSIVE sorted_reverse(_)
\* list.sort(reverse=True): descending
sorted_reverse(q) ==
    IF q = <<>> THEN <<>>
    ELSE LET rest == sorted_reverse(Tail(q))
         IN  SelectSeq(rest, LAMBDA x : StrLess(Head(q), x)) \o <<Head(q)>>
             \o SelectSeq(rest, LAMBDA x : ~StrLess(Head(q), x))

\* app.get_sites
get_sites(page, quirk, fault) ==
    LET scan == Paginate(Rows(padsTable, [i \in 1..Len(padsTable) |->
                                            padsTable[i].site # None]),
                         0, page, quirk, 1, fault, <<>>, <<>>)
        all_items == scan.items
    IN  IF scan.raised THEN [status |-> 500, body |-> <<>>, calls |-> scan.calls]
        ELSE [status |-> 200, calls |-> scan.calls,
              body |-> sorted(list_of_set([i \in 1..Len(all_items) |-> all_items[i].site]))]

\* app.get_sectors
get_sectors(site, page, quirk, fault) ==
    IF site = None THEN [status |-> 400, body |-> <<>>, calls |-> <<>>]
    ELSE
    LET scan == Paginate(Rows(padsTable, [i \in 1..Len(padsTable) |->
                                            /\ padsTable[i].site = site
                                            /\ padsTable[i].sector # None]),
                         0, page, quirk, 1, fault, <<>>, <<>>)
        all_items == scan.items
    IN  IF scan.raised THEN [status |-> 500, body |-> <<>>, calls |-> scan.calls]
        ELSE [status |-> 200, calls |-> scan.calls,
              body |-> sorted(list_of_set([i \in 1..Len(all_items) |-> all_items[i].sector]))]

\* app.get_periods: one scan request
get_periods(site, sector, page, quirk, fault) ==
    IF site = None \/ sector = None THEN [status |-> 400, body |-> <<>>, calls |-> <<>>]
    ELSE IF fault = 1 THEN [status |-> 500, body |-> <<>>, calls |-> <<>>]
    ELSE
    LET response == PageOf(Rows(images, [i \in 1..Len(images) |->
                                           /\ images[i].site_id = site
                                           /\ images[i].sector_id = sector]),
                           0, page, quirk)
    IN  [status |-> 200,
         calls |-> <<[start |-> 0, lek |-> response.lek, Items |-> response.Items]>>,
         body |-> sorted_reverse(list_of_set([i \in 1..Len(response.Items) |->
                                                 response.Items[i].period]))]

DSites == {<<"a">>, <<"b">>}

\* pad records of two sites and two sectors, one with a name of its own, one
\* without the site attribute and one without the sector attribute
DPadRecords ==
    {PadRecord(CSite, CSector, <<"m">>, None, List(<<Dec(1)>>)),
     PadRecord(CSite, CSector, <<"n">>, <<"a">>, List(<<Dec(1)>>)),
     PadRecord(CSite, <<"y">>, <<"m">>, None, List(<<Dec(1)>>)),
     PadRecord(<<"b">>, CSector, <<"m">>, None, List(<<Dec(1)>>)),
     PadRecord(None, CSector, <<"m">>, None, List(<<Dec(1)>>)),
     PadRecord(CSite, None, <<"m">>, None, List(<<Dec(1)>>))}

\* image records: two of one period, and one of the other site
DImageRecords ==
    {[image_id |-> <<"1">>, site_id |-> CSite, sector_id |-> CSector, period |-> <<"1">>],
     [image_id |-> <<"2">>, site_id |-> CSite, sector_id |-> CSector, period |-> <<"1">>],
     [image_id |-> <<"a">>, site_id |-> CSite, sector_id |-> CSector, period |-> <<"1", "2">>],
     [image_id |-> <<"b">>, site_id |-> CSite, sector_id |-> CSector, period |-> <<"2">>],
     [image_id |-> <<"x">>, site_id |-> <<"b">>, sector_id |-> CSector, period |-> <<"2">>]}

\* a Pads collection or an Images collection of at most MaxItems records
InitDiscovery ==
    /\ \/ /\ padsTable \in {q \in Arrangements(DPadRecords, MaxItems) : Distinct(q)}
          /\ images = <<>>
       \/ /\ images \in {q \in Arrangements(DImageRecords, MaxItems) : Distinct(q)}
          /\ padsTable = <<>>
    /\ blobs = {}
    /\ measTable = <<>>
    /\ NoAuth
    /\ resp = Idle

\* GET /api/sites
GetSites ==
    /\ resp = Idle
    /\ \E page \in PageChoices(padsTable) : \E quirk \in BOOLEAN :
       \E fault \in 0..(Len(padsTable) + 1) :
        resp' = [op |-> "get_sites", page |-> page, quirk |-> quirk, fault |-> fault]
                @@ get_sites(page, quirk, fault)
    /\ UNCHANGED <<stores, authVars>>

\* GET /api/sectors
GetSectors ==
    /\ resp = Idle
    /\ \E site \in DSites \cup {None} : \E page \in PageChoices(padsTable) :
       \E quirk \in BOOLEAN : \E fault \in 0..(Len(padsTable) + 1) :
        resp' = [op |-> "get_sectors", site |-> site, page |-> page, quirk |-> quirk,
                 fault |-> fault]
                @@ get_sectors(site, page, quirk, fault)
    /\ UNCHANGED <<stores, authVars>>

\* GET /api/periods
GetPeriods ==
    /\ resp = Idle
    /\ \E site \in {CSite, None} : \E sector \in {CSector, None} :
       \E page \in PageChoices(images) : \E quirk \in BOOLEAN : \E fault \in 0..1 :
        resp' = [op |-> "get_periods", site |-> site, sector |-> sector, page |-> page,
                 quirk |-> quirk, fault |-> fault]
                @@ get_periods(site, sector, page, quirk, fault)
    /\ UNCHANGED <<stores, authVars>>

\* GET /api/pads with no period
ListPads ==
    /\ resp = Idle
    /\ \E r \in PadsListRequests :
        resp' = [op |-> "get_pads", site |-> r.site, sector |-> r.sector,
                 period |-> r.period, page |-> r.page, qfault |-> r.qfault, plan |-> r.plan]
                @@ get_pads(r.site, r.sector, r.period, r.page, r.qfault, r.plan)
    /\ UNCHANGED <<stores, authVars>>

NextDiscovery == GetSites \/ GetSectors \/ GetPeriods \/ ListPads \/ Deliver

SpecDiscovery == InitDiscovery /\ [][NextDiscovery]_vars

(***************************************************************************)
(* services/report_service.py and POST /api/report/generate.  What the     *)
(* request meets outside the process is its environment: whether the       *)
(* template file exists, whether the template fill succeeds, whether the   *)
(* converter can be started and ends in time, its exit code, its stderr    *)
(* and whether it wrote report.pdf.                                        *)
(***************************************************************************)
ReportFields == {"site", "sector", "rows"}

\* the request bodies: none at all, one that is not JSON, and the JSON values
\* null, an array, and an object with some of the fields, rows an array or not
Payloads ==
    {[payload |-> "empty", fields |-> {}, rows_list |-> FALSE],
     [payload |-> "malformed", fields |-> {}, rows_list |-> FALSE],
     [payload |-> "null", fields |-> {}, rows_list |-> FALSE],
     [payload |-> "array", fields |-> {}, rows_list |-> FALSE]}
    \cup {[payload |-> "object", fields |-> fields, rows_list |-> rows_list] :
            fields \in SUBSET ReportFields, rows_list \in BOOLEAN}

Environments ==
    [template_exists : BOOLEAN, render_ok : BOOLEAN,
     launch : {"ran", "missing", "timeout"}, returncode : {0, 1},
     stderr : {<<>>, <<"diagnostic">>}, pdf_created : BOOLEAN]

\* request.get_json(): the value, None (raised FALSE, data the payload "null"),
\* or the BadRequest / UnsupportedMediaType the framework raises for a body it
\* cannot read as JSON; for a request without a body it does either, by its
\* version and the Content-Type (on_empty tells which)
get_json(body, on_empty) ==
    IF body.payload = "malformed" \/ (body.payload = "empty" /\ on_empty = "raise")
    THEN [raised |-> TRUE, data |-> body]
    ELSE IF body.payload = "empty"
    THEN [raised |-> FALSE, data |-> [body EXCEPT !.payload = "null"]]
    ELSE [raised |-> FALSE, data |-> body]

PdfResult(raised, e, filled, converted) ==
    [raised |-> raised, e |-> e, filled |-> filled, converted |-> converted]

\* generate_pdf returning the bytes whenever report.pdf exists
generate_pdf_ignoring_exit(env) ==
    IF ~env.template_exists
    THEN PdfResult("FileNotFoundError", <<"Template file not found">>, FALSE, FALSE)
    ELSE IF ~env.render_ok THEN PdfResult("Exception", <<"render failed">>, TRUE, FALSE)
    ELSE IF env.launch = "missing"
    THEN PdfResult("FileNotFoundError", <<"No such file or directory: libreoffice">>,
                   TRUE, TRUE)
    ELSE IF env.launch = "timeout" THEN PdfResult("Exception", <<"timed out">>, TRUE, TRUE)
    ELSE IF ~env.pdf_created
    THEN PdfResult("Exception", <<"PDF file was not created by LibreOffice">>, TRUE, TRUE)
    ELSE PdfResult("none", <<>>, TRUE, TRUE)

\* ReportService.generate_pdf: the exception raised ("none": the bytes are
\* returned), whether the template was filled and whether the converter was
\* started
generate_pdf(env) ==
    IF ~env.template_exists
    THEN PdfResult("FileNotFoundError", <<"Template file not found">>, FALSE, FALSE)
    ELSE IF ~env.render_ok THEN PdfResult("Exception", <<"render failed">>, TRUE, FALSE)
    ELSE IF env.launch = "missing"
    THEN PdfResult("FileNotFoundError", <<"No such file or directory: libreoffice">>,
                   TRUE, TRUE)
    ELSE IF env.launch = "timeout" THEN PdfResult("Exception", <<"timed out">>, TRUE, TRUE)
    ELSE IF env.returncode # 0
    THEN PdfResult("Exception",
                   <<"PDF conversion failed: ">>
                       \o (IF env.stderr # <<>> THEN env.stderr ELSE <<"Unknown error">>),
                   TRUE, TRUE)
    ELSE IF ~env.pdf_created
    THEN PdfResult("Exception", <<"PDF file was not created by LibreOffice">>, TRUE, TRUE)
    ELSE PdfResult("none", <<>>, TRUE, TRUE)

ReportAnswer(status, error, filled, converted) ==
    [status |-> status, error |-> error, filled |-> filled, converted |-> converted]

\* app.generate_report
generate_report(body, on_empty, env) ==
    LET json == get_json(body, on_empty)
        data == json.data
    IN  IF json.raised THEN ReportAnswer(500, <<"Bad Request">>, FALSE, FALSE)
        ELSE IF data.payload = "null" \/ (data.payload = "object" /\ data.fields = {})
        THEN ReportAnswer(400, <<"No data provided">>, FALSE, FALSE)
        ELSE IF data.payload = "array" \/ ReportFields \ data.fields # {}
        THEN ReportAnswer(400, <<"Missing required fields">>, FALSE, FALSE)
        ELSE IF ~data.rows_list
        THEN ReportAnswer(400, <<"rows must be an array">>, FALSE, FALSE)
        ELSE LET pdf == generate_pdf(env)
             IN  IF pdf.raised = "none" THEN ReportAnswer(200, <<>>, pdf.filled, pdf.converted)
                 ELSE IF pdf.raised = "FileNotFoundError"
                 THEN ReportAnswer(500,
                          <<"Report template not found. Please contact administrator.">>,
                          pdf.filled, pdf.converted)
                 ELSE ReportAnswer(500, pdf.e, pdf.filled, pdf.converted)

InitReport ==
    /\ images = <<>>
    /\ blobs = {}
    /\ padsTable = <<>>
    /\ measTable = <<>>
    /\ NoAuth
    /\ resp = Idle

\* POST /api/report/generate
GenerateReport ==
    /\ resp = Idle
    /\ \E body \in Payloads : \E on_empty \in {"none", "raise"} : \E env \in Environments :
        resp' = [op |-> "generate_report", request |-> body, on_empty |-> on_empty,
                 env |-> env]
                @@ generate_report(body, on_empty, env)
    /\ UNCHANGED <<stores, authVars>>

NextReport == GenerateReport \/ Deliver

SpecReport == InitReport /\ [][NextReport]_vars

(***************************************************************************)
(* The mosaic viewer: GET /api/mosaic/orthomosaic and /api/mosaic/cameras, *)
(* next to the completeness checker.  The checker probes under the base    *)
(* key the image record stores; the two endpoints build their key from the *)
(* request parameters.                                                     *)
(***************************************************************************)
\* MosaicService.get_orthomosaic_url: s3_key
orthomosaic_s3_key(site, sector, period, pad_id, mosaic_type) ==
    Append(MosaicBase(site, sector, period, pad_id, mosaic_type), "odm_orthophoto.tif")

\* CameraService.get_camera_positions: s3_key
shots_s3_key(site, sector, period, pad_id, mosaic_type) ==
    Append(MosaicBase(site, sector, period, pad_id, mosaic_type), "shots.geojson")

\* app.get_orthomosaic_url: generate_presigned_url signs the key whether or not
\* an object is there
get_orthomosaic_url(site, sector, period, pad_id, mosaic_type, fault) ==
    IF site = None \/ sector = None \/ period = None \/ pad_id = None
    THEN [status |-> 400, key |-> <<>>, url |-> None]
    ELSE IF fault = 1 THEN [status |-> 500, key |-> <<>>, url |-> None]
    ELSE LET s3_key == orthomosaic_s3_key(site, sector, period, pad_id, mosaic_type)
         IN  [status |-> 200, key |-> s3_key, url |-> Signed(s3_key)]

\* app.get_cameras: get_object raises for a key without object; the features
\* are then matched with the image records of the pad (one query, no Limit)
get_cameras(site, sector, period, pad_id, mosaic_type, fault) ==
    IF site = None \/ sector = None \/ period = None \/ pad_id = None
    THEN [status |-> 400, key |-> <<>>, matched |-> 0]
    ELSE LET s3_key == shots_s3_key(site, sector, period, pad_id, mosaic_type)
         IN  IF fault = 1 \/ s3_key \notin blobs \/ fault = 2
             THEN [status |-> 500, key |-> s3_key, matched |-> 0]
             ELSE [status |-> 200, key |-> s3_key,
                   matched |-> Len(SelectSeq(images, LAMBDA img :
                                   /\ img.site_id = site
                                   /\ SectorPeriod(img.sector_id, img.period)
                                        = SectorPeriod(sector, period)
                                   /\ img.pad_id = pad_id))]

\* a base key stored without the viewer directory
BaseWithoutViewer(site, sector, period, pad_id, mosaic_type) ==
    <<"mosaics", site, sector, period, pad_id, mosaic_type>>

ViewerPad == PadId(CSite, CSector, <<"m">>)

\* one image record of one pad; the record stores, for each variant, the
\* conventional base key or one without the viewer directory, and the bucket
\* holds both artifacts of some variants under either base
InitViewer ==
    /\ \E moved \in SUBSET Variants :
        images = <<[ImageRecord(ViewerPad, 1, {}) EXCEPT !.mosaic_s3_keys =
                      [v \in Variants |->
                         IF v \in moved
                         THEN BaseWithoutViewer(CSite, CSector, CPeriod, ViewerPad, v)
                         ELSE MosaicBase(CSite, CSector, CPeriod, ViewerPad, v)]]>>
    /\ \E inViewer \in SUBSET Variants : \E outside \in SUBSET Variants :
        blobs = {Append(MosaicBase(CSite, CSector, CPeriod, ViewerPad, v), f) :
                    v \in inViewer, f \in Files}
                \cup {Append(BaseWithoutViewer(CSite, CSector, CPeriod, ViewerPad, v), f) :
                        v \in outside, f \in Files}
    /\ padsTable = <<>>
    /\ measTable = <<>>
    /\ NoAuth
    /\ resp = Idle

\* GET /api/mosaic/orthomosaic
GetOrthomosaicUrl ==
    /\ resp = Idle
    /\ \E pad_id \in {ViewerPad, None} : \E mosaic_type \in Variants : \E fault \in 0..1 :
        resp' = [op |-> "get_orthomosaic_url", site |-> CSite, sector |-> CSector,
                 period |-> CPeriod, pad_id |-> pad_id, mosaic_type |-> mosaic_type,
                 fault |-> fault]
                @@ get_orthomosaic_url(CSite, CSector, CPeriod, pad_id, mosaic_type, fault)
    /\ UNCHANGED <<stores, authVars>>

\* GET /api/mosaic/cameras
GetCameras ==
    /\ resp = Idle
    /\ \E pad_id \in {ViewerPad, None} : \E mosaic_type \in Variants : \E fault \in 0..2 :
        resp' = [op |-> "get_cameras", site |-> CSite, sector |-> CSector,
                 period |-> CPeriod, pad_id |-> pad_id, mosaic_type |-> mosaic_type,
                 fault |-> fault]
                @@ get_cameras(CSite, CSector, CPeriod, pad_id, mosaic_type, fault)
    /\ UNCHANGED <<stores, authVars>>

NextViewer == IsComplete \/ GetOrthomosaicUrl \/ GetCameras \/ Deliver

SpecViewer == InitViewer /\ [][NextViewer]_vars

(***************************************************************************)
(* middleware/auth.py: the signing-key cache and the bearer-token gate.    *)
(* A token is [kid, defect]: the key id of its header ("none" when the     *)
(* header has none) and what is wrong with it ("none": nothing).           *)
(***************************************************************************)
JWKS_CACHE_TTL == 3600

MaxTicks == 3

Kids == {"k1", "k2"}

TokenDefects ==
    {"none", "malformed", "bad_signature", "bad_alg", "expired", "wrong_issuer",
     "bad_token_use"}

Tokens == [kid : Kids \cup {"none"}, defect : TokenDefects]

\* the Authorization headers: absent, not "Bearer <token>", or a bearer token
Headers == {[kind |-> "missing"], [kind |-> "malformed"]}
           \cup {[kind |-> "bearer", token |-> t] : t \in Tokens}

\* the methods that reach a wrapped view: every route is registered with
\* methods=['GET'] or ['POST'], and an OPTIONS request to such a route is
\* answered by the framework without calling the view
RouteMethods == {"GET", "POST"}

\* the truth value of _jwks_cache['keys']: None and the empty dict are false
Truthy(cache) == ~cache.null /\ cache.keys # {}

\* process start: time.time() is far past the TTL
StartTime == 2 * JWKS_CACHE_TTL

\* fetch_jwks with the cache never expiring
fetch_jwks_no_expiry(cache, t, outcome) ==
    IF Truthy(cache)
    THEN [cache |-> cache, keys |-> cache.keys, raised |-> FALSE, fetched |-> FALSE]
    ELSE IF outcome = "ok"
    THEN [cache |-> [null |-> FALSE, keys |-> issuerKeys, last_updated |-> t],
          keys |-> issuerKeys, raised |-> FALSE, fetched |-> TRUE]
    ELSE [cache |-> cache, keys |-> {}, raised |-> TRUE, fetched |-> TRUE]

\* auth.fetch_jwks at time t, the issuer answering `outcome` ("ok" or "fail")
fetch_jwks(cache, t, outcome) ==
    IF Truthy(cache) /\ (t - cache.last_updated) < JWKS_CACHE_TTL
    THEN [cache |-> cache, keys |-> cache.keys, raised |-> FALSE, fetched |-> FALSE]
    ELSE IF outcome = "ok"
    THEN [cache |-> [null |-> FALSE, keys |-> issuerKeys, last_updated |-> t],
          keys |-> issuerKeys, raised |-> FALSE, fetched |-> TRUE]
    ELSE IF Truthy(cache)
    THEN [cache |-> cache, keys |-> cache.keys, raised |-> FALSE, fetched |-> TRUE]
    ELSE [cache |-> cache, keys |-> {}, raised |-> TRUE, fetched |-> TRUE]

Count(b) == IF b THEN 1 ELSE 0

\* auth.get_public_key: exc is "none", "InvalidTokenError", "ValueError" or
\* "Exception" (what fetch_jwks raised)
get_public_key(token, cache, t, o1, o2) ==
    IF token.defect = "malformed"
    THEN [exc |-> "InvalidTokenError", cache |-> cache, fetches |-> 0]
    ELSE IF token.kid = "none"
    THEN [exc |-> "ValueError", cache |-> cache, fetches |-> 0]
    ELSE
    LET f1 == fetch_jwks(cache, t, o1) IN
    IF f1.raised THEN [exc |-> "Exception", cache |-> f1.cache, fetches |-> 1]
    ELSE IF token.kid \in f1.keys
    THEN [exc |-> "none", cache |-> f1.cache, fetches |-> Count(f1.fetched)]
    ELSE
    LET f2 == fetch_jwks([f1.cache EXCEPT !.last_updated = 0], t, o2)
        n == Count(f1.fetched) + Count(f2.fetched)
    IN  IF f2.raised THEN [exc |-> "Exception", cache |-> f2.cache, fetches |-> n]
        ELSE IF token.kid \notin f2.keys
        THEN [exc |-> "ValueError", cache |-> f2.cache, fetches |-> n]
        ELSE [exc |-> "none", cache |-> f2.cache, fetches |-> n]

\* validate_token answering claims whatever jwt.decode finds
validate_token_no_decode(token, cache, t, o1, o2) ==
    LET k == get_public_key(token, cache, t, o1, o2)
    IN  IF k.exc = "InvalidTokenError"
        THEN [ok |-> FALSE, exc |-> "ValueError", cache |-> k.cache, fetches |-> k.fetches]
        ELSE IF k.exc # "none"
        THEN [ok |-> FALSE, exc |-> k.exc, cache |-> k.cache, fetches |-> k.fetches]
        ELSE [ok |-> TRUE, exc |-> "none", cache |-> k.cache, fetches |-> k.fetches]

\* auth.validate_token (reached only with the pool id configured): ok with the
\* claims, or the exception that leaves it
validate_token(token, cache, t, o1, o2) ==
    LET k == get_public_key(token, cache, t, o1, o2)
    IN  IF k.exc = "InvalidTokenError"
        THEN [ok |-> FALSE, exc |-> "ValueError", cache |-> k.cache, fetches |-> k.fetches]
        ELSE IF k.exc # "none"
        THEN [ok |-> FALSE, exc |-> k.exc, cache |-> k.cache, fetches |-> k.fetches]
        ELSE IF token.defect \in {"bad_signature", "bad_alg", "expired", "wrong_issuer",
                                   "bad_token_use"}
        THEN [ok |-> FALSE, exc |-> "ValueError", cache |-> k.cache, fetches |-> k.fetches]
        ELSE [ok |-> TRUE, exc |-> "none", cache |-> k.cache, fetches |-> k.fetches]

\* what the wrapped view answers here (the views are the other operations)
ViewStatus == 200

Gate(status, ran, checked, validated, cache, fetches) ==
    [status |-> status, handler_ran |-> ran, checked |-> checked,
     validated |-> validated, cache |-> cache, fetches |-> fetches]

\* require_auth's decorated(): status is 401, or ViewStatus when the wrapped
\* view ran and answered; checked tells whether validate_token was called
require_auth(method, header, cache, t, o1, o2) ==
    IF method = "OPTIONS" THEN Gate(ViewStatus, TRUE, FALSE, FALSE, cache, 0)
    ELSE IF ~configured THEN Gate(ViewStatus, TRUE, FALSE, FALSE, cache, 0)
    ELSE IF header.kind = "missing" THEN Gate(401, FALSE, FALSE, FALSE, cache, 0)
    ELSE IF header.kind = "malformed" THEN Gate(401, FALSE, FALSE, FALSE, cache, 0)
    ELSE
    LET v == validate_token(header.token, cache, t, o1, o2)
    IN  IF v.ok THEN Gate(ViewStatus, TRUE, TRUE, TRUE, v.cache, v.fetches)
        ELSE Gate(401, FALSE, TRUE, FALSE, v.cache, v.fetches)

\* init_auth at start-up: the key set is fetched when the pool id is set, and
\* a failure is logged
InitAuth ==
    /\ configured \in BOOLEAN
    /\ now = StartTime
    /\ issuerKeys \in SUBSET Kids \ {{}}
    /\ jwks_cache \in
         IF configured
         THEN {fetch_jwks(EmptyCache, StartTime, o).cache : o \in {"ok", "fail"}}
         ELSE {EmptyCache}
    /\ gate = NoGate
    /\ images = <<>>
    /\ blobs = {}
    /\ padsTable = <<>>
    /\ measTable = <<>>
    /\ resp = Idle

\* a request to an endpoint wrapped by require_auth
Request ==
    /\ resp = Idle
    /\ \E method \in RouteMethods : \E header \in Headers :
       \E o1 \in {"ok", "fail"} : \E o2 \in {"ok", "fail"} :
        LET g == require_auth(method, header, jwks_cache, now, o1, o2)
        IN  /\ resp' = [op |-> "request", method |-> method, header |-> header,
                        o1 |-> o1, o2 |-> o2, before |-> jwks_cache,
                        status |-> g.status, handler_ran |-> g.handler_ran,
                        checked |-> g.checked, validated |-> g.validated,
                        fetches |-> g.fetches]
            /\ jwks_cache' = g.cache
    /\ UNCHANGED <<stores, configured, issuerKeys, now, gate>>

\* the answer of a gated request leaves the server
Answer ==
    /\ resp # Idle
    /\ resp' = Idle
    /\ UNCHANGED <<stores, authVars>>

\* time passes
Tick ==
    /\ resp = Idle
    /\ now < StartTime + MaxTicks * (JWKS_CACHE_TTL \div 2)
    /\ now' = now + JWKS_CACHE_TTL \div 2
    /\ UNCHANGED <<stores, configured, jwks_cache, issuerKeys, gate, resp>>

\* the issuer rotates its keys
Rotate ==
    /\ resp = Idle
    /\ \E ks \in SUBSET Kids \ {{}} : ks # issuerKeys /\ issuerKeys' = ks
    /\ UNCHANGED <<stores, configured, jwks_cache, now, gate, resp>>

NextAuth == Request \/ Answer \/ Tick \/ Rotate

SpecAuth == InitAuth /\ [][NextAuth]_vars

(***************************************************************************)
(* get_public_key and fetch_jwks statement by statement, for requests      *)
(* handled at the same time by the threads of one process.  Each thread    *)
(* is at a line of auth.py (pc) with its locals; _jwks_cache is shared and *)
(* no lock is taken.  The token of a request is sound but for its key id.  *)
(* gate.refreshed_at is history: the time of the last fetch whose result   *)
(* was stored.  A request ends within two fetches of at most 10 s, so the  *)
(* clock, which moves in half TTLs, stands still while one is in progress. *)
(***************************************************************************)
MaxGateTicks == 2

\* two requests at a time: the one that forces an expiry and another one
Threads == {1, 2}

\* pc: "idle", "L47" (fetch_jwks entered), "L53" (requests.get sent), "L58",
\* "L59", "L62", "L67" (the except branch), "L87", "done"; lookups: how each
\* fetch_jwks call of the request ended
IdleThread ==
    [pc |-> "idle", kid |-> "none", current_time |-> 0, fetched |-> {},
     second |-> FALSE, miss |-> FALSE, jwks |-> {}, lookups |-> <<>>, status |-> 0]

Thread(th) == gate.threads[th]

SetThread(th, t) == [gate EXCEPT !.threads[th] = t]

\* get_public_key going on for ever after a miss
AfterLookupRetrying(second, found) ==
    IF found THEN "done" ELSE "L87"

\* get_public_key lines 85-93 after fetch_jwks returned: where the thread goes
AfterLookup(second, found) ==
    IF found THEN "done"
    ELSE IF ~second THEN "L87"
    ELSE "done"

\* fetch_jwks returned `keys` to get_public_key, having ended as `how`
Returned(t, keys, how) ==
    LET pc == AfterLookup(t.second, t.kid \in keys)
    IN  [t EXCEPT !.pc = pc, !.jwks = keys, !.lookups = Append(@, how),
                  !.miss = @ \/ (t.kid \notin keys),
                  !.status = IF pc = "done" THEN (IF t.kid \in keys THEN 200 ELSE 401)
                             ELSE 0]

\* the except branch of fetch_jwks raising whatever is cached
FallbackNever(cache) == FALSE

\* fetch_jwks line 67: whether the failed fetch falls back to the cached keys
Fallback(cache) == Truthy(cache)

\* init_auth has run with the pool id set: the start-up fetch worked or not
InitGate ==
    /\ configured = TRUE
    /\ now = StartTime
    /\ issuerKeys \in SUBSET Kids \ {{}}
    /\ \E o \in {"ok", "fail"} :
        /\ jwks_cache = fetch_jwks(EmptyCache, StartTime, o).cache
        /\ gate = [threads |-> [th \in Threads |-> IdleThread],
                   refreshed_at |-> IF o = "ok" THEN StartTime ELSE 0]
    /\ images = <<>>
    /\ blobs = {}
    /\ padsTable = <<>>
    /\ measTable = <<>>
    /\ resp = Idle

GateFrame == UNCHANGED <<stores, configured, issuerKeys, now, resp>>

\* a request with a bearer token reaches get_public_key line 83
Start(th) ==
    /\ Thread(th).pc = "idle"
    /\ \E kid \in Kids :
        gate' = SetThread(th, [IdleThread EXCEPT !.pc = "L47", !.kid = kid])
    /\ UNCHANGED jwks_cache
    /\ GateFrame

\* the same, with no other request in progress
StartAlone(th) ==
    /\ \A other \in Threads : Thread(other).pc = "idle"
    /\ Start(th)

\* fetch_jwks lines 44-48
CheckCache(th) ==
    /\ Thread(th).pc = "L47"
    /\ LET t == [Thread(th) EXCEPT !.current_time = now]
       IN  gate' = SetThread(th,
                IF Truthy(jwks_cache) /\ (now - jwks_cache.last_updated) < JWKS_CACHE_TTL
                THEN Returned(t, jwks_cache.keys, "cached")
                ELSE [t EXCEPT !.pc = "L53"])
    /\ UNCHANGED jwks_cache
    /\ GateFrame

\* lines 53-55: the issuer answers with its key set
HttpOk(th) ==
    /\ Thread(th).pc = "L53"
    /\ gate' = SetThread(th, [Thread(th) EXCEPT !.pc = "L58", !.fetched = issuerKeys])
    /\ UNCHANGED jwks_cache
    /\ GateFrame

\* lines 53-55 raise
HttpFail(th) ==
    /\ Thread(th).pc = "L53"
    /\ gate' = SetThread(th, [Thread(th) EXCEPT !.pc = "L67"])
    /\ UNCHANGED jwks_cache
    /\ GateFrame

\* line 58
StoreKeys(th) ==
    /\ Thread(th).pc = "L58"
    /\ jwks_cache' = [jwks_cache EXCEPT !.null = FALSE, !.keys = Thread(th).fetched]
    /\ gate' = SetThread(th, [Thread(th) EXCEPT !.pc = "L59"])
    /\ GateFrame

\* line 59
StoreTime(th) ==
    /\ Thread(th).pc = "L59"
    /\ jwks_cache' = [jwks_cache EXCEPT !.last_updated = Thread(th).current_time]
    /\ gate' = [SetThread(th, [Thread(th) EXCEPT !.pc = "L62"]) EXCEPT !.refreshed_at = now]
    /\ GateFrame

\* line 62
ReturnFresh(th) ==
    /\ Thread(th).pc = "L62"
    /\ gate' = SetThread(th, Returned(Thread(th), jwks_cache.keys, "fetched"))
    /\ UNCHANGED jwks_cache
    /\ GateFrame

\* lines 64-70: the stale keys, or the exception, which require_auth answers
\* with 401
HandleFailure(th) ==
    /\ Thread(th).pc = "L67"
    /\ gate' = SetThread(th,
            IF Fallback(jwks_cache)
            THEN Returned(Thread(th), jwks_cache.keys, "stale")
            ELSE [Thread(th) EXCEPT !.pc = "done", !.status = 401,
                                    !.lookups = Append(@, "raised")])
    /\ UNCHANGED jwks_cache
    /\ GateFrame

\* a forced expiry that also drops the cached keys
ExpireAndClear(cache) == EmptyCache

\* get_public_key line 87: _jwks_cache['last_updated'] = 0
Expire(cache) == [cache EXCEPT !.last_updated = 0]

\* get_public_key lines 87-88
ForceExpiry(th) ==
    /\ Thread(th).pc = "L87"
    /\ jwks_cache' = Expire(jwks_cache)
    /\ gate' = SetThread(th, [Thread(th) EXCEPT !.pc = "L47", !.second = TRUE])
    /\ GateFrame

\* the request is answered
Finish(th) ==
    /\ Thread(th).pc = "done"
    /\ gate' = SetThread(th, IdleThread)
    /\ UNCHANGED jwks_cache
    /\ GateFrame

\* half a TTL goes by between requests
GateTick ==
    /\ \A th \in Threads : Thread(th).pc = "idle"
    /\ now < StartTime + MaxGateTicks * (JWKS_CACHE_TTL \div 2)
    /\ now' = now + JWKS_CACHE_TTL \div 2
    /\ UNCHANGED <<stores, configured, jwks_cache, issuerKeys, gate, resp>>

Step(th) ==
    \/ CheckCache(th) \/ HttpOk(th) \/ HttpFail(th) \/ StoreKeys(th) \/ StoreTime(th)
    \/ ReturnFresh(th) \/ HandleFailure(th) \/ ForceExpiry(th) \/ Finish(th)

\* one request at a time
NextLookup == (\E th \in Threads : StartAlone(th) \/ Step(th)) \/ GateTick \/ Rotate

SpecLookup == InitGate /\ [][NextLookup]_vars

\* requests at the same time, in every interleaving
NextRace == (\E th \in Threads : Start(th) \/ Step(th)) \/ GateTick \/ Rotate

SpecRace == InitGate /\ [][NextRace]_vars

(***************************************************************************)
(* Every endpoint of app.py with the store calls its handler and the       *)
(* services it uses make, in the order of the code: the table or bucket    *)
(* and the boto3 method.  jobs_table is handed to MosaicService and never  *)
(* called.                                                                 *)
(***************************************************************************)
Call(store, method) == [store |-> store, method |-> method]

Endpoints ==
    {"get_sites", "get_sectors", "get_periods", "get_pads", "get_mosaic_metadata",
     "get_orthomosaic_url", "get_cameras", "get_optical_image", "get_thermal_image",
     "get_thermal_stats", "get_coverage_stats", "get_pipe_measurement",
     "get_sector_measurements", "generate_report", "health_check", "root"}

\* the views wrapped by @require_auth
Gated(endpoint) == endpoint \notin {"health_check", "root"}

\* the kinds of store call a handler makes, each kind once, with a deleting
\* sweep of the bucket added to the pads handler
StoreCallsWithSweep(endpoint) ==
    IF endpoint = "get_pads"
    THEN <<Call("Pads", "query"), Call("Images", "query"), Call("S3", "head_object"),
           Call("S3", "delete_object")>>
    ELSE <<Call("Images", "scan")>>

\* the kinds of store call a handler makes, each kind once
StoreCallsOf(endpoint) ==
    CASE endpoint \in {"get_sites", "get_sectors"} -> <<Call("Pads", "scan")>>
      [] endpoint = "get_periods" -> <<Call("Images", "scan")>>
      [] endpoint = "get_pads" ->
            <<Call("Pads", "query"), Call("Images", "query"), Call("S3", "head_object")>>
      [] endpoint \in {"get_mosaic_metadata", "get_coverage_stats"} ->
            <<Call("Images", "query")>>
      [] endpoint = "get_orthomosaic_url" -> <<Call("S3", "generate_presigned_url")>>
      [] endpoint = "get_cameras" -> <<Call("S3", "get_object"), Call("Images", "query")>>
      [] endpoint = "get_optical_image" ->
            <<Call("Images", "get_item"), Call("S3", "generate_presigned_url")>>
      [] endpoint = "get_thermal_image" ->
            <<Call("Images", "get_item"), Call("S3", "generate_presigned_url"),
              Call("S3", "head_object")>>
      [] endpoint = "get_thermal_stats" -> <<Call("Images", "get_item")>>
      [] endpoint \in {"get_pipe_measurement", "get_sector_measurements"} ->
            <<Call("Measurements", "query")>>
      [] OTHER -> <<>>

ReadMethods ==
    {"query", "scan", "get_item", "head_object", "get_object", "generate_presigned_url"}

\* a table after one call of a boto3 Table method
TableCall(items, method) ==
    IF method \in ReadMethods THEN items
    ELSE IF method = "delete_item" /\ items # <<>> THEN Tail(items)
    ELSE IF method = "put_item" /\ items # <<>> THEN Append(items, items[1])
    ELSE items

\* the bucket after one call of a boto3 S3 client method
BucketCall(objects, method) ==
    IF method \in ReadMethods THEN objects
    ELSE IF method = "delete_object" /\ objects # {}
    THEN objects \ {CHOOSE k \in objects : TRUE}
    ELSE IF method = "put_object" THEN objects \cup {<<"new">>}
    ELSE objects

RECURSIVE TableAfter(_, _, _)
\* the table `store` after the calls
TableAfter(items, store, calls) ==
    IF calls = <<>> THEN items
    ELSE TableAfter(IF calls[1].store = store THEN TableCall(items, calls[1].method)
                    ELSE items,
                    store, Tail(calls))

RECURSIVE BucketAfter(_, _)
BucketAfter(objects, calls) ==
    IF calls = <<>> THEN objects
    ELSE BucketAfter(IF calls[1].store = "S3" THEN BucketCall(objects, calls[1].method)
                     ELSE objects,
                     Tail(calls))

\* a running server: every store holds something, the gate as at start-up
InitFrame ==
    /\ images = <<ImageRecord(PadId(CSite, CSector, <<"m">>), 1, {})>>
    /\ blobs = BlobStore({})
    /\ padsTable = <<PadRecord(CSite, CSector, <<"m">>, None, List(<<Dec(1)>>))>>
    /\ measTable = <<MeasRecord(MSite, MSector, <<"1">>, PadId(CSite, CSector, <<"m">>))>>
    /\ configured \in BOOLEAN
    /\ now = StartTime
    /\ issuerKeys \in SUBSET Kids \ {{}}
    /\ jwks_cache \in
         IF configured
         THEN {fetch_jwks(EmptyCache, StartTime, o).cache : o \in {"ok", "fail"}}
         ELSE {EmptyCache}
    /\ gate = NoGate
    /\ resp = Idle

\* the headers tried on every endpoint: none, a malformed one, and bearer
\* tokens that are good or expired
FrameHeaders ==
    {h \in Headers : h.kind = "bearer" => h.token.defect \in {"none", "expired"}}

\* one request to any endpoint: the gate, then the handler, which makes its
\* store calls up to the one that fails (or all of them)
Serve ==
    /\ resp = Idle
    /\ \E endpoint \in Endpoints : \E header \in FrameHeaders :
       \E o1 \in {"ok", "fail"} : \E o2 \in {"ok", "fail"} :
       \E made \in 0..Len(StoreCallsOf(endpoint)) :
        LET g == IF Gated(endpoint)
                 THEN require_auth("GET", header, jwks_cache, now, o1, o2)
                 ELSE Gate(ViewStatus, TRUE, FALSE, FALSE, jwks_cache, 0)
            calls == IF g.handler_ran THEN Take(StoreCallsOf(endpoint), made) ELSE <<>>
        IN  /\ resp' = [op |-> "serve", endpoint |-> endpoint, calls |-> calls,
                        failed |-> ~g.handler_ran \/ made < Len(StoreCallsOf(endpoint)),
                        refreshed |-> g.cache # jwks_cache]
            /\ jwks_cache' = g.cache
            /\ images' = TableAfter(images, "Images", calls)
            /\ padsTable' = TableAfter(padsTable, "Pads", calls)
            /\ measTable' = TableAfter(measTable, "Measurements", calls)
            /\ blobs' = BucketAfter(blobs, calls)
    /\ UNCHANGED <<configured, issuerKeys, now, gate>>

NextFrame == Serve \/ Answer \/ Tick \/ Rotate

SpecFrame == InitFrame /\ [][NextFrame]_vars

(***************************************************************************)
(* The claims about the bearer-token gate.                                 *)
(***************************************************************************)
\* C4: for every endpoint wrapped by require_auth: with the issuer configured
\* the wrapped view runs only after validate_token succeeded for the request's
\* bearer token, and a missing header, a malformed header or any validation
\* failure (a malformed, expired, wrongly issued, wrongly signed token, an
\* unsupported token_use, an unknown key id, a failed key fetch) is answered
\* 401 with the view not run; with the issuer unconfigured the view runs with
\* no credential check.
C4_GateBeforeHandler ==
    resp.op = "request" =>
        IF configured
        THEN /\ resp.handler_ran =>
                  /\ resp.header.kind = "bearer"
                  /\ resp.checked /\ resp.validated
                  /\ resp.header.token.defect = "none"
                  /\ resp.header.token.kid \in
                        (IF Truthy(resp.before) THEN resp.before.keys ELSE {}) \cup issuerKeys
             /\ ~resp.handler_ran <=> resp.status = 401
             /\ (resp.header.kind # "bearer" \/ ~resp.validated) => resp.status = 401
        ELSE resp.handler_ran /\ ~resp.checked /\ resp.status = ViewStatus

\* C4's case: a configured gate let a request through after validating its token
C4_Witness ==
    /\ resp.op = "request"
    /\ configured
    /\ resp.handler_ran
    /\ resp.validated

(***************************************************************************)
(* The claims about the completeness checker.                              *)
(***************************************************************************)
\* the image records of a pad in a site, sector and period
PadImages(site, sector, period, pad_id) ==
    {i \in 1..Len(images) : /\ images[i].site_id = site
                            /\ images[i].sector_id = sector
                            /\ images[i].period = period
                            /\ images[i].pad_id = pad_id}

\* the keys probed and found by the call in resp
Found == {resp.probes[i][1] : i \in {j \in 1..Len(resp.probes) : resp.probes[j][2] = "ok"}}

\* C1: whenever is_complete answers true, the image record it inspected is a
\* record of the requested pad and period, it lists each of the three variants
\* in included_in and in mosaic_s3_keys, and both artifacts of each variant,
\* {base}/odm_orthophoto.tif and {base}/shots.geojson, are in the blob store
\* and were found there by a probe of this call.  (So a variant not listed,
\* a variant without a key, or an absent artifact yields false.)
C1_CompleteImpliesAllPresent ==
    (resp.op = "is_complete" /\ resp.result) =>
        /\ resp.inspected \in PadImages(resp.site, resp.sector, resp.period, resp.pad_id)
        /\ \A v \in Variants :
            /\ v \in images[resp.inspected].included_in
            /\ v \in DOMAIN images[resp.inspected].mosaic_s3_keys
            /\ \A f \in Files :
                LET key == Append(images[resp.inspected].mosaic_s3_keys[v], f)
                IN  key \in blobs /\ key \in Found

\* C1's case: a call of is_complete that answered true
C1_Witness == resp.op = "is_complete" /\ resp.result

\* C2: for every pad that has image records in the period, all of which list
\* the three variants in included_in and in mosaic_s3_keys, and whose artifacts
\* all exist in the blob store, is_complete answers true (no round trip of the
\* call having failed).
C2_AllPresentImpliesComplete ==
    (/\ resp.op = "is_complete"
     /\ resp.fault = NoFault
     /\ PadImages(resp.site, resp.sector, resp.period, resp.pad_id) # {}
     /\ \A i \in PadImages(resp.site, resp.sector, resp.period, resp.pad_id) :
          \A v \in Variants :
            /\ v \in images[i].included_in
            /\ v \in DOMAIN images[i].mosaic_s3_keys
            /\ \A f \in Files : Append(images[i].mosaic_s3_keys[v], f) \in blobs)
    => resp.result

\* C3: for a pad with no image record in the period, is_complete answers false
\* and issues no existence probe.
C3_NoImagesIsIncomplete ==
    (/\ resp.op = "is_complete"
     /\ PadImages(resp.site, resp.sector, resp.period, resp.pad_id) = {})
    => (~resp.result /\ resp.probes = <<>>)

\* C3's case: a call for a pad without image records, in a period that holds
\* records of another pad, no round trip failing
C3_Witness ==
    /\ resp.op = "is_complete"
    /\ resp.fault = NoFault
    /\ PadImages(resp.site, resp.sector, resp.period, resp.pad_id) = {}
    /\ images # <<>>
    /\ ~resp.result

(***************************************************************************)
(* The claim about unknown images.                                         *)
(***************************************************************************)
ImageOps == {"get_optical_image", "get_thermal_image", "get_thermal_stats"}

\* C5: a request for an image that is not in the record store (optical URL,
\* thermal URL or thermal stats of an unknown image_id) is answered with a 404
\* response carrying a descriptive message, and a failure of the record store
\* with a 500 response.
C5_UnknownImageIs404 ==
    resp.op \in ImageOps =>
        /\ (resp.fault.call # 1 /\ GetItem(resp.image_id) = <<>>) =>
               /\ resp.status = 404
               /\ resp.body.items.error.v = <<"Image not found">>
        /\ resp.fault.call = 1 => resp.status = 500

(***************************************************************************)
(* The claims about the thermal statistics.                                *)
(***************************************************************************)
\* the record the request of resp is about
StatsItem == GetItem(resp.image_id)[1]

\* whether that record has calibration status "calibrated"
StatsCalibrated ==
    /\ "calibration" \in DOMAIN StatsItem.attrs
    /\ StatsItem.attrs.calibration.status = "calibrated"

\* the raw sensor value of the record, 0 when the record has none
RawValue(k) ==
    IF "thermal_metadata" \in DOMAIN StatsItem.attrs
    THEN Float(StatsItem.attrs.thermal_metadata[k].v) ELSE Float(0)

\* C11: for an image with calibration status "calibrated" the thermal-stats
\* operation returns max_temp = temperature_delta.max_calibrated, not the raw
\* sensor maximum, and is_calibrated true; for any other status it returns the
\* raw sensor values and is_calibrated false.
C11_CalibratedMaxTemp ==
    (resp.op = "get_thermal_stats" /\ resp.status = 200) =>
        LET stats == resp.body.items
        IN  IF StatsCalibrated
            THEN /\ stats.max_temp =
                      Float(StatsItem.attrs.calibration.temperature_delta.max_calibrated.v)
                 /\ "thermal_metadata" \in DOMAIN StatsItem.attrs =>
                      stats.max_temp # RawValue("temperature_max")
                 /\ stats.is_calibrated = Str("True")
            ELSE /\ stats.min_temp = RawValue("temperature_min")
                 /\ stats.max_temp = RawValue("temperature_max")
                 /\ stats.avg_temp = RawValue("temperature_avg")
                 /\ stats.is_calibrated = Str("False")

\* C11's case: a calibrated record that also carries raw sensor values
C11_Witness ==
    /\ resp.op = "get_thermal_stats"
    /\ resp.status = 200
    /\ StatsCalibrated
    /\ "thermal_metadata" \in DOMAIN StatsItem.attrs
    /\ resp.body.items.max_temp = Float(452)

\* C12: for an image with calibration status "calibrated" min_temp, max_temp
\* and avg_temp are all three the calibrated values of temperature_delta, none
\* of them the raw sensor value.
C12_AllThreeCalibrated ==
    (resp.op = "get_thermal_stats" /\ resp.status = 200 /\ StatsCalibrated) =>
        LET stats == resp.body.items
            delta == StatsItem.attrs.calibration.temperature_delta
        IN  /\ stats.min_temp = Float(delta.min_calibrated.v)
            /\ stats.max_temp = Float(delta.max_calibrated.v)
            /\ stats.avg_temp = Float(delta.avg_calibrated.v)

(***************************************************************************)
(* The claim about the colorbar of the thermal image.                      *)
(***************************************************************************)
\* the record the thermal-image request of resp is about
ThermalItem == GetItem(resp.image_id)[1]

\* whether the record names a legend artifact: site, sector and period, and a
\* thermal file name or an image_id of four parts or more
LegendNamed ==
    /\ ThermalItem.site_id # None /\ ThermalItem.sector_id # None /\ ThermalItem.period # None
    /\ ThermalItem.thermal_filename # None \/ Len(Split(ThermalItem.image_id, "_")) >= 4

\* colored/{palette}/{site}/{sector}/{period}/{image_name}_colorbar.png
LegendKey ==
    <<"colored", resp.palette, ThermalItem.site_id, ThermalItem.sector_id, ThermalItem.period,
      <<"D", "_", "5", "_", "T", "_colorbar.png">>>>

LegendExists == LegendNamed /\ LegendKey \in blobs

ThermalAnswered == resp.op = "get_thermal_image" /\ resp.status = 200

\* the request is one the colorized image can be signed for
ThermalServable ==
    /\ resp.op = "get_thermal_image"
    /\ resp.fault.call # 1
    /\ GetItem(resp.image_id) # <<>>
    /\ resp.palette \in DOMAIN ThermalItem.colored_images

\* C16: the thermal-image operation returns the signed URL of the palette's
\* colorized image and a colorbar URL that is None exactly when no legend
\* artifact exists and a signed URL when it exists; the request never fails for
\* want of the legend.
C16_ColorbarNoneIffNoLegend ==
    /\ ThermalServable => resp.status = 200
    /\ ThermalAnswered =>
         /\ resp.body.items.url.items.url.v = Signed(ThermalItem.colored_images[resp.palette])
         /\ resp.body.items.url.items.colorbar_url.v =
              IF LegendExists THEN Signed(LegendKey) ELSE None

(***************************************************************************)
(* The claim about decimal_to_float.                                       *)
(***************************************************************************)
RECURSIVE SameShapeFloats(_, _)
\* b is a with every Decimal, at any depth, replaced by the float of its value:
\* same keys, same list lengths and order, every other leaf as in a
SameShapeFloats(a, b) ==
    CASE a.t = "Decimal" -> b = Float(a.v)
      [] a.t = "dict" -> /\ b.t = "dict"
                         /\ DOMAIN b.items = DOMAIN a.items
                         /\ \A k \in DOMAIN a.items : SameShapeFloats(a.items[k], b.items[k])
      [] a.t = "list" -> /\ b.t = "list"
                         /\ Len(b.items) = Len(a.items)
                         /\ \A i \in 1..Len(a.items) : SameShapeFloats(a.items[i], b.items[i])
      [] OTHER -> b = a

RECURSIVE HoldsDecimal(_)
\* whether a value holds a Decimal at any depth
HoldsDecimal(a) ==
    CASE a.t = "Decimal" -> TRUE
      [] a.t = "dict" -> \E k \in DOMAIN a.items : HoldsDecimal(a.items[k])
      [] a.t = "list" -> \E i \in 1..Len(a.items) : HoldsDecimal(a.items[i])
      [] OTHER -> FALSE

\* C17: decimal_to_float of a value built from nested dicts and lists has the
\* shape of the value, every Decimal at any depth replaced by a float and every
\* other leaf unchanged, so that no Decimal is left in what is serialized.
C17_DecimalsBecomeFloats ==
    resp.op = "converted" =>
        /\ SameShapeFloats(resp.obj, resp.out)
        /\ ~HoldsDecimal(resp.out)

\* C17's case: a Decimal inside a list inside a dict, next to another leaf
C17_Witness ==
    /\ resp.op = "converted"
    /\ resp.obj = Dict([a |-> List(<<Dec(1)>>), b |-> Str("s")])
    /\ resp.out = Dict([a |-> List(<<Float(1)>>), b |-> Str("s")])

(***************************************************************************)
(* The claims about the coverage statistics.                               *)
(***************************************************************************)
\* the altitudes the queried images carry, whatever their value
PresentAltitudes ==
    LET have == SelectSeq(resp.queried, LAMBDA img : img.altitude # Absent)
    IN  [i \in 1..Len(have) |-> have[i].altitude.v]

CoverageAnswered == resp.op = "get_coverage_stats" /\ resp.status = 200

\* C13: on an empty image set the coverage statistics are total_images 0,
\* coverage_area_m2 0, avg_altitude_m 0 and camera_fov_deg 68.9, the
\* field-of-view constant of the non-empty case.
C13_EmptyCoverageKeepsFov ==
    (CoverageAnswered /\ resp.queried = <<>>) =>
        /\ resp.body.items.total_images.v = 0
        /\ resp.body.items.coverage_area_m2.v = 0
        /\ resp.body.items.avg_altitude_m.v = 0
        /\ resp.body.items.camera_fov_deg.v = camera_fov

\* C14: the average altitude is the arithmetic mean over exactly the images
\* that carry an altitude, whatever its value; images without one are left
\* out; total_images counts every image.
C14_MeanOverPresentAltitudes ==
    (CoverageAnswered /\ resp.queried # <<>>) =>
        /\ resp.body.items.total_images.v = Len(resp.queried)
        /\ resp.body.items.avg_altitude_m.v =
             IF PresentAltitudes = <<>> THEN 0
             ELSE RoundHalfEven(SumSeq(PresentAltitudes), Len(PresentAltitudes))

\* C15 as stated: a zero or negative average altitude (or no altitude at all)
\* gives area zero; a positive one gives a strictly positive area that grows
\* with the image count.
C15_PositiveAltitudePositiveArea ==
    (CoverageAnswered /\ resp.queried # <<>>) =>
        LET area == resp.body.items.coverage_area_m2.v
        IN  IF SumSeq(PresentAltitudes) <= 0 THEN area = 0
            ELSE /\ area > 0
                 /\ total_area(collected_altitudes(resp.queried), Len(resp.queried) + 1) > area

\* C15 amended: a zero or negative average altitude (or no altitude at all)
\* gives area zero; a positive one gives the estimate rounded to two decimals,
\* which is never negative, never shrinks when the image count grows, and is
\* strictly positive once the estimate before rounding reaches 0.01 m2.
C15_AreaZeroOrRoundedEstimate ==
    (CoverageAnswered /\ resp.queried # <<>>) =>
        LET area == resp.body.items.coverage_area_m2.v
            sum == SumSeq(PresentAltitudes)
            withAltitude == Len(collected_altitudes(resp.queried))
            images_n == Len(resp.queried)
        IN  IF sum <= 0 THEN area = 0
            ELSE /\ area >= 0
                 /\ total_area(collected_altitudes(resp.queried), images_n + 1) >= area
                 /\ 6024 * sum * sum * images_n >= 1000000 * withAltitude * withAltitude
                       => area > 0

\* C15's case: several images of a positive average altitude and a positive area
C15_Witness ==
    /\ CoverageAnswered
    /\ Len(resp.queried) > 1
    /\ SumSeq(PresentAltitudes) > 0
    /\ resp.body.items.coverage_area_m2.v > 0

(***************************************************************************)
(* The claims about the measurement operations.                            *)
(***************************************************************************)
\* the measurement records of a composite key, by index
KeyMeasurements(site, sector, period, pad_id) ==
    {i \in 1..Len(measTable) : /\ measTable[i].site_id = site
                               /\ measTable[i].sector = sector
                               /\ measTable[i].period = period
                               /\ measTable[i].pad_id = pad_id}

\* C6: the single-measurement operation returns the measurement record of
\* (site, sector, period, pad_id) when one exists and a 404 response when none
\* exists; a record-store failure yields a 500 response, never a 404.
C6_MeasurementOr404 ==
    resp.op = "get_pipe_measurement" =>
        LET have == KeyMeasurements(resp.site, resp.sector, resp.period, resp.pad_id)
        IN  IF resp.fault # 0 THEN resp.status = 500
            ELSE IF have = {} THEN resp.status = 404
            ELSE /\ resp.status = 200
                 /\ resp.item \in have
                 /\ resp.body = decimal_to_float(MeasValue(measTable[resp.item]))

\* C6's case: the record of the key was returned from a table that also holds
\* records of other keys
C6_Witness ==
    /\ resp.op = "get_pipe_measurement"
    /\ resp.status = 200
    /\ Len(measTable) > 1
    /\ resp.item > 1

\* the measurement records of a sector and period, in index order
SectorMeasurements(site, sector, period) ==
    SelectSeq(measTable, LAMBDA m : m.site_id = site /\ m.sector = sector /\ m.period = period)

RECURSIVE Concat(_)
Concat(pages) == IF pages = <<>> THEN <<>> ELSE Head(pages) \o Concat(Tail(pages))

\* C7: the sector-measurements operation returns every measurement record of
\* the sector and period: the first request carries no start key, each later
\* request carries the continuation token of the response before it, every
\* page's items are appended once, the loop stops at the first response that
\* carries no continuation token, and count is the number of records returned.
C7_SectorMeasurementsPaginated ==
    (resp.op = "get_sector_measurements" /\ resp.status = 200) =>
        LET all == SectorMeasurements(resp.site, resp.sector, resp.period)
            n == Len(resp.calls)
        IN  /\ resp.measurements =
                 decimal_to_float(List([i \in 1..Len(all) |-> MeasValue(all[i])]))
            /\ resp.count = Len(all)
            /\ resp.count = Len(resp.measurements.items)
            /\ n >= 1
            /\ resp.calls[1].start = 0
            /\ \A k \in 2..n : /\ resp.calls[k - 1].lek # 0
                               /\ resp.calls[k].start = resp.calls[k - 1].lek
            /\ resp.calls[n].lek = 0
            /\ Concat([k \in 1..n |-> resp.calls[k].Items]) = all

\* C7's case: the records came in two pages that carried items, from a table
\* that holds records of another period too
C7_Witness ==
    /\ resp.op = "get_sector_measurements"
    /\ resp.status = 200
    /\ Len(resp.calls) >= 2
    /\ resp.calls[1].Items # <<>>
    /\ resp.calls[2].Items # <<>>
    /\ Len(measTable) > resp.count

(***************************************************************************)
(* The claims about GET /api/pads.                                         *)
(***************************************************************************)
\* the pads of a site and sector, in index order
SectorPads(site, sector) ==
    SelectSeq(padsTable, LAMBDA item : item.site = site /\ item.sector = sector)

\* C10: with a period, the pads operation returns exactly the pads of the
\* site and sector for which is_complete is true, each checked once and in
\* query order; without a period it returns every pad of the site and sector
\* and checks none.
C10_PadsFilteredByCompleteness ==
    (resp.op = "get_pads" /\ resp.status = 200) =>
        LET all == SectorPads(resp.site, resp.sector)
            ids == {all[i].pad_id : i \in 1..Len(all)}
            got == {resp.body[i].pad_id : i \in 1..Len(resp.body)}
        IN  /\ Len(resp.body) = Cardinality(got)
            /\ IF resp.period = None
               THEN got = ids /\ resp.checked = <<>>
               ELSE /\ Len(resp.checked) = Len(all)
                    /\ \A j \in 1..Len(all) :
                         /\ resp.checked[j].pad_id = all[j].pad_id
                         /\ resp.checked[j].result =
                              check_pad_completeness(resp.site, resp.sector, resp.period,
                                                     all[j].pad_id, resp.plan[j]).result
                    /\ got = {resp.checked[j].pad_id :
                                j \in {k \in 1..Len(resp.checked) : resp.checked[k].result}}

(***************************************************************************)
(* The claims about the discovery operations.                              *)
(***************************************************************************)
DiscoveryOps == {"get_sites", "get_sectors", "get_periods", "get_pads"}

\* what the collection holds for the request of resp
Discoverable ==
    CASE resp.op = "get_sites" ->
             {item.site : item \in {r \in Range(padsTable) : r.site # None}}
      [] resp.op = "get_sectors" ->
             {item.sector : item \in {r \in Range(padsTable) :
                                         r.site = resp.site /\ r.sector # None}}
      [] resp.op = "get_periods" ->
             {item.period : item \in {r \in Range(images) :
                                         r.site_id = resp.site /\ r.sector_id = resp.sector}}
      [] OTHER ->
             {item.pad_id : item \in Range(SectorPads(resp.site, resp.sector))}

\* the identifiers of the response
Discovered ==
    IF resp.op = "get_pads" THEN {resp.body[i].pad_id : i \in 1..Len(resp.body)}
    ELSE Range(resp.body)

\* C8: every discovery operation (sites, sectors, periods, pads) answers with
\* the identifiers of all pages of its scan or query: an identifier that is
\* only on a second or later page is in the result too.
C8_DiscoveryReadsAllPages ==
    (resp.op \in DiscoveryOps /\ resp.status = 200) => Discovered = Discoverable

\* C9: discovery lists hold no value twice and are sorted: sites and sectors
\* ascending, periods descending, pads ascending by pad name, one entry a pad.
C9_DiscoverySortedNoDuplicates ==
    (resp.op \in DiscoveryOps /\ resp.status = 200) =>
        \A i \in 1..(Len(resp.body) - 1) :
            CASE resp.op \in {"get_sites", "get_sectors"} ->
                     StrLess(resp.body[i], resp.body[i + 1])
              [] resp.op = "get_periods" -> StrLess(resp.body[i + 1], resp.body[i])
              [] OTHER -> /\ StrLeq(resp.body[i].pad_name, resp.body[i + 1].pad_name)
                          /\ \A j \in (i + 1)..Len(resp.body) :
                                resp.body[j].pad_id # resp.body[i].pad_id

\* C9's case: pad records with sites b, a, a were scanned and answered a, b
C9_Witness ==
    /\ resp.op = "get_sites"
    /\ resp.status = 200
    /\ [i \in 1..Len(padsTable) |-> padsTable[i].site] = <<<<"b">>, <<"a">>, <<"a">>>>
    /\ resp.body = <<<<"a">>, <<"b">>>>

(***************************************************************************)
(* Document generation claims                                              *)
(***************************************************************************)
ReportAnswered == "op" \in DOMAIN resp /\ resp.op = "generate_report"

\* the request body is empty, lacks a required field, or its rows is no list
InvalidReportBody ==
    \/ resp.request.payload \in {"empty", "null", "array"}
    \/ ReportFields \ resp.request.fields # {}
    \/ ~resp.request.rows_list

RendererReached == ReportAnswered /\ ~InvalidReportBody /\ resp.request.payload = "object"

TemplateNotFoundAnswer ==
    resp.status = 500
    /\ resp.error = <<"Report template not found. Please contact administrator.">>

\* C18: a body that is empty, lacks site, sector or rows, or whose rows is not
\* a list is answered with status 400 and an error body, and neither the
\* template fill nor the converter is invoked.
C18_InvalidBodyIs400 ==
    (ReportAnswered /\ InvalidReportBody)
        => (resp.status = 400 /\ resp.error # <<>> /\ ~resp.filled /\ ~resp.converted)

\* C19: a missing template file is raised before any template fill or
\* converter invocation, and the answer it gets is given to no converter
\* failure and no other internal error.
C19_TemplateNotFoundDistinct ==
    RendererReached =>
        /\ ~resp.env.template_exists
               => (TemplateNotFoundAnswer /\ ~resp.filled /\ ~resp.converted)
        /\ (resp.env.template_exists /\ resp.status # 200) => ~TemplateNotFoundAnswer

\* C20: when the converter exits non-zero no bytes are returned and the error
\* answer carries the converter's stderr text unchanged; bytes are returned
\* only when the converter exited zero and the output document exists.
C20_ConverterFailureRaises ==
    RendererReached =>
        /\ (resp.converted /\ resp.env.launch = "ran" /\ resp.env.returncode # 0)
               => /\ resp.status = 500
                  /\ resp.env.stderr # <<>>
                         => resp.error = <<"PDF conversion failed: ">> \o resp.env.stderr
        /\ resp.status = 200
               => (resp.converted /\ resp.env.launch = "ran"
                   /\ resp.env.returncode = 0 /\ resp.env.pdf_created)

C20_Witness ==
    /\ RendererReached
    /\ resp.converted /\ resp.env.launch = "ran" /\ resp.env.returncode # 0
    /\ resp.env.stderr # <<>> /\ resp.env.pdf_created
    /\ resp.status = 500

(***************************************************************************)
(* The claim about what the system writes.                                 *)
(***************************************************************************)
\* C21: no request, successful or failing, changes the contents of the Images,
\* Pads or Measurements tables or of the bucket, nor the configuration; the
\* only state of the server a request changes is the signing-key cache.
C21_StoresNeverWritten ==
    [][stores' = stores /\ configured' = configured]_vars

\* C21's case: a request that probed the bucket and refreshed the key cache
C21_Witness ==
    /\ resp.op = "serve"
    /\ resp.refreshed
    /\ \E i \in 1..Len(resp.calls) : resp.calls[i].method = "head_object"

(***************************************************************************)
(* The claims about the signing-key cache.                                 *)
(***************************************************************************)
\* thread th takes the step of fetch_jwks line 47 / leaves line pc
PassesLine(th, pc) == Thread(th).pc = pc /\ gate'.threads[th].pc # pc

\* cached key material exists and the last stored fetch is less than a TTL old
FreshMaterial == Truthy(jwks_cache) /\ (now - gate.refreshed_at) < JWKS_CACHE_TTL

\* C22: while cached key material exists and less than JWKS_CACHE_TTL has
\* elapsed since the last successful refresh, fetch_jwks (but for the refresh
\* get_public_key forces after a miss) returns the cached keys without
\* contacting the issuer; once the TTL has elapsed the lookup attempts a
\* refresh; a successful refresh replaces the cached key set and sets
\* last_updated to the time of the refresh.
C22_CacheTimeBounded ==
    [][\A th \in Threads :
        /\ (PassesLine(th, "L47") /\ FreshMaterial /\ ~Thread(th).second)
              => /\ gate'.threads[th].pc # "L53"
                 /\ gate'.threads[th].jwks = jwks_cache.keys
        /\ (PassesLine(th, "L47") /\ (now - gate.refreshed_at) >= JWKS_CACHE_TTL)
              => gate'.threads[th].pc = "L53"
        /\ PassesLine(th, "L58") => jwks_cache'.keys = Thread(th).fetched
        /\ PassesLine(th, "L59")
              => (jwks_cache'.last_updated = now /\ jwks_cache'.keys = Thread(th).fetched)
      ]_vars

\* the test of fetch_jwks line 47 on a cache at the present time
CacheValid(cache) == Truthy(cache) /\ (now - cache.last_updated) < JWKS_CACHE_TTL

\* C23: when a refresh fails and cached keys exist, fetch_jwks returns the
\* stale keys, leaves the cached key set and last_updated as they are, and the
\* cache still counts as expired, so that the next lookup fetches again; when
\* nothing is cached the failure leaves fetch_jwks and the request is
\* answered 401.
C23_FailedRefreshFallsBack ==
    [][\A th \in Threads :
        PassesLine(th, "L67") =>
            /\ jwks_cache' = jwks_cache
            /\ ~CacheValid(jwks_cache')
            /\ IF Truthy(jwks_cache)
               THEN /\ gate'.threads[th].jwks = jwks_cache.keys
                    /\ gate'.threads[th].lookups = Append(Thread(th).lookups, "stale")
               ELSE /\ gate'.threads[th].pc = "done"
                    /\ gate'.threads[th].status = 401
                    /\ gate'.threads[th].lookups = Append(Thread(th).lookups, "raised")
      ]_vars

\* C23's case: a request let through on stale keys after the fetch failed
C23_Witness ==
    \E th \in Threads :
        /\ Thread(th).pc = "done"
        /\ Thread(th).lookups = <<"stale">>
        /\ Thread(th).status = 200
        /\ now - gate.refreshed_at >= JWKS_CACHE_TTL

\* the fetch_jwks calls of a request that went to the issuer
Contacted(lookups) == {i \in 1..Len(lookups) : lookups[i] # "cached"}

\* C24: a key id missing from the keys fetch_jwks returned makes
\* get_public_key force one refresh, which goes to the issuer even inside the
\* TTL, and look once more: the request goes on with the key when the second
\* key set has it and is answered 401 otherwise, with no third lookup; one
\* request makes at most two issuer fetches.
C24_OneForcedRefresh ==
    \A th \in Threads :
        LET t == Thread(th)
        IN  /\ Len(t.lookups) <= 2
            /\ Cardinality(Contacted(t.lookups)) <= 2
            /\ t.second => t.miss
            /\ (t.miss /\ t.pc = "done") => Len(t.lookups) = 2
            /\ Len(t.lookups) = 2 => (t.second /\ t.lookups[2] # "cached" /\ t.pc = "done")
            /\ (t.pc = "done" /\ t.lookups[Len(t.lookups)] # "raised")
                  => /\ t.status = (IF t.kid \in t.jwks THEN 200 ELSE 401)
                     /\ Len(t.lookups) = 1 => t.kid \in t.jwks

\* C24's case: inside the TTL the cached keys lack the key id, the forced
\* refresh brings it and the request goes on
C24_Witness ==
    \E th \in Threads :
        /\ Thread(th).pc = "done"
        /\ Thread(th).lookups = <<"cached", "fetched">>
        /\ Thread(th).status = 200

\* C29: in every interleaving of requests sharing _jwks_cache: a non-zero
\* last_updated comes with a key set that is not None; a key set, once there,
\* is only ever replaced by a key set just fetched from the issuer and never
\* emptied; and a request whose key id is in the cached set is let through
\* when its fetch fails, whatever another request's forced expiry did to
\* last_updated.
C29_CacheSafeUnderInterleaving ==
    [][/\ jwks_cache.last_updated # 0 => ~jwks_cache.null
       /\ ~jwks_cache.null => (~jwks_cache'.null /\ jwks_cache'.keys # {})
       /\ (jwks_cache'.keys # jwks_cache.keys \/ jwks_cache'.null # jwks_cache.null)
             => \E th \in Threads :
                    /\ PassesLine(th, "L58")
                    /\ jwks_cache'.keys = Thread(th).fetched
       /\ \A th \in Threads :
             ((PassesLine(th, "L47") \/ PassesLine(th, "L67"))
                 /\ ~jwks_cache.null /\ Thread(th).kid \in jwks_cache.keys)
             => gate'.threads[th].pc \in {"L53", "done"}
                /\ (gate'.threads[th].pc = "done" => gate'.threads[th].status = 200)
      ]_vars

\* C29's case: inside the TTL one request has forced the expiry, another
\* request's fetch then failed, and that request was let through on the
\* cached keys
C29_Witness ==
    \E a, b \in Threads :
        /\ a # b
        /\ Thread(a).second /\ Thread(a).pc \in {"L47", "L53", "L67"}
        /\ jwks_cache.last_updated = 0
        /\ now - gate.refreshed_at < JWKS_CACHE_TTL
        /\ Thread(b).pc = "done"
        /\ Thread(b).lookups = <<"stale">>
        /\ Thread(b).status = 200

(***************************************************************************)
(* Further claims about the completeness checker.                          *)
(***************************************************************************)
\* the answers of the probes of the call in resp
ProbeAnswers == {resp.probes[i][2] : i \in 1..Len(resp.probes)}

\* C25: in is_complete a probe answered "not found" makes the result false,
\* and a blob-store error other than "not found" raised during a probe leaves
\* is_complete as a fault instead of being turned into false.
C25_ProbeErrorPropagates ==
    resp.op = "is_complete" =>
        /\ "404" \in ProbeAnswers => (~resp.result /\ ~resp.raised /\ ~resp.caught)
        /\ "client_error" \in ProbeAnswers => resp.raised

VariantOrder == <<"optical", "medical", "hotspot_alert">>

\* the artifact the i-th probe of a run is for
ProbeFile(i) == IF i % 2 = 1 THEN "odm_orthophoto.tif" ELSE "shots.geojson"

\* C26: is_complete visits optical, medical, hotspot_alert in this order and in
\* each checks included_in, then mosaic_s3_keys, then the orthophoto, then
\* the geometry artifact; it stops at the first failed check with no probe
\* after it; a run issues at most 6 probes, a run answering true exactly 6,
\* one per artifact, and no artifact is probed twice.
C26_ProbesInFixedOrder ==
    resp.op = "is_complete" =>
        LET n == Len(resp.probes)
        IN  /\ n <= 6
            /\ resp.inspected = 0 => n = 0
            /\ \A i \in 1..n :
                 LET v == VariantOrder[(i + 1) \div 2]
                     r == images[resp.inspected]
                 IN  /\ \A k \in 1..((i + 1) \div 2) :
                            /\ VariantOrder[k] \in r.included_in
                            /\ VariantOrder[k] \in DOMAIN r.mosaic_s3_keys
                     /\ resp.probes[i][1] = Append(r.mosaic_s3_keys[v], ProbeFile(i))
            /\ \A i \in 1..(n - 1) : resp.probes[i][2] = "ok"
            /\ \A i, j \in 1..n : resp.probes[i][1] = resp.probes[j][1] => i = j
            /\ resp.result <=> (n = 6 /\ resp.probes[6][2] = "ok")
            /\ (resp.inspected # 0 /\ ~resp.result /\ (n = 0 \/ resp.probes[n][2] = "ok"))
                 => LET v == VariantOrder[(n \div 2) + 1]
                        r == images[resp.inspected]
                    IN  /\ n % 2 = 0
                        /\ v \notin r.included_in \/ v \notin DOMAIN r.mosaic_s3_keys
                        /\ resp.why = "no_key" => v \in r.included_in

\* C26's case: a run stopped by the orthophoto of the second variant
C26_Witness ==
    /\ resp.op = "is_complete"
    /\ Len(resp.probes) = 3
    /\ resp.probes[3][2] = "404"
    /\ ~resp.result

\* C27: is_complete obtains an image record of the requested pad whenever the
\* pad has one in the period, whatever records of other pads the period
\* holds: it finds no image only when the pad has none.
C27_RepresentativeWheneverPresent ==
    (resp.op = "is_complete" /\ resp.fault.call # 1) =>
        LET own == PadImages(resp.site, resp.sector, resp.period, resp.pad_id)
        IN  /\ own # {} => resp.inspected \in own
            /\ resp.why = "no_images" <=> own = {}

\* C28: with a period supplied, GET /api/pads is answered 200 whatever fails
\* while a pad is checked: every pad of the page is checked, a pad whose check
\* met a failure is left out, and every other pad is in the answer exactly
\* when its own check, made without a failure, answers true.
C28_FailureOmitsOnlyThatPad ==
    (resp.op = "get_pads" /\ resp.period # None) =>
        /\ resp.status = 200
        /\ Len(resp.checked) = Len(resp.queried)
        /\ \A j \in 1..Len(resp.queried) :
            LET pad_id == resp.queried[j]
                listed == \E i \in 1..Len(resp.body) : resp.body[i].pad_id = pad_id
            IN  /\ resp.checked[j].pad_id = pad_id
                /\ listed <=> resp.checked[j].result
                /\ resp.plan[j] # NoFault => ~listed
                /\ resp.plan[j] = NoFault =>
                     (listed <=> check_pad_completeness(resp.site, resp.sector, resp.period,
                                                        pad_id, NoFault).result)

\* C28's case: two pads, the check of one meeting a failure, the other one
\* complete and returned
C28_Witness ==
    /\ resp.op = "get_pads"
    /\ resp.period # None
    /\ Len(resp.queried) = 2
    /\ Len(resp.body) = 1
    /\ \E j, k \in 1..2 :
        /\ resp.plan[j].call = 1
        /\ resp.plan[k] = NoFault
        /\ resp.body[1].pad_id = resp.queried[k]

\* C30: when is_complete answers true for a pad and period then, for each
\* variant, the object the orthomosaic endpoint signs and the object the
\* cameras endpoint fetches for that pad, period and variant are among the
\* objects the probes of the call found.
C30_ServedObjectsWereProbed ==
    (resp.op = "is_complete" /\ resp.result) =>
        \A v \in Variants :
            /\ orthomosaic_s3_key(resp.site, resp.sector, resp.period, resp.pad_id, v) \in Found
            /\ shots_s3_key(resp.site, resp.sector, resp.period, resp.pad_id, v) \in Found

=============================================================================
